---- MODULE Spec2Model ----
(***************************************************************************)
(* A model of the vectorial crate: the generic vectors Vector2/3/4, the    *)
(* axis-aligned rects Rect2/3 built from two corner vectors, and the       *)
(* operations lifted field by field from the scalar type.                  *)
(*                                                                         *)
(* A vector is a function from its field names to scalars, a rect is the   *)
(* pair of its corners (p0 is field .0, p1 is field .1), an Option is a    *)
(* sequence of length at most one, an array or a tuple is a sequence.      *)
(***************************************************************************)
EXTENDS Integers, Sequences, FiniteSets, TLC

VARIABLES
    op,     \* the operation applied last ("new" right after construction)
    ty,     \* the scalar type T the values are instantiated at
    lhs,    \* the receiver (self)
    rhs,    \* the argument of a binary operation
    out     \* what the operation returned

vars == <<op, ty, lhs, rhs, out>>

----------------------------------------------------------------------------
(* Bounds of the model *)

\* Rect2 coordinates are drawn from 0..MaxCoord
MaxCoord == 3
\* Rect3 coordinates are drawn from 0..MaxCoord3
MaxCoord3 == 1
\* width in bits of the bounded signed scalar (Saturating<iN>)
IntBits == 2
\* vector fields are drawn from -(MaxVal + 1)..MaxVal, within the scalar's range
MaxVal == 1

----------------------------------------------------------------------------
(* Option<T> *)

None == <<>>
Some(v) == <<v>>
\* the outcome of a call that panicked
Panic == "panic"

\* Option::unwrap panics on None
unwrap(o) == IF o = None THEN Panic ELSE o[1]

----------------------------------------------------------------------------
(* Fields of the vector types, in declaration order *)

FieldOrder == <<"x", "y", "z", "w">>
FieldSeq(n) == SubSeq(FieldOrder, 1, n)
Fields(n) == {FieldOrder[i] : i \in 1..n}
Dim(v) == Cardinality(DOMAIN v)

\* the tuple struct RectN(point0, point1)
Rect(point0, point1) == [p0 |-> point0, p1 |-> point1]

----------------------------------------------------------------------------
(* The scalar type T: comparison (PartialOrd) *)

\* a value of T that compares false with everything (f32::NAN)
NaN == -1000

\* Beside the integers, T holds for an integer n a value Twin(n) that is
\* ordered as n is against every other value but is incomparable with n, and
\* a value Alias(n) that is equal to n for the comparisons but is another
\* value (as -0.0 is for 0.0).  Key is the integer a value is ordered as.
Twin(n) == n + 2000
Alias(n) == n + 4000
is_twin(v) == 1000 <= v /\ v < 3000
Key(v) == IF v >= 3000 THEN v - 4000 ELSE IF v >= 1000 THEN v - 2000 ELSE v

\* PartialOrd::partial_cmp returns Some
comparable(a, b) ==
    /\ a # NaN
    /\ b # NaN
    /\ Key(a) = Key(b) => is_twin(a) = is_twin(b)

gt(a, b) == comparable(a, b) /\ Key(a) > Key(b)
lt(a, b) == comparable(a, b) /\ Key(a) < Key(b)
ge(a, b) == comparable(a, b) /\ Key(a) >= Key(b)

----------------------------------------------------------------------------
(* rect/mod.rs: helpers *)

\* a variant of partial_max that keeps a unless b is greater
partial_max_prefers_first(a, b) == IF gt(b, a) THEN b ELSE a

partial_max(a, b) == IF gt(a, b) THEN a ELSE b

partial_min(a, b) == IF lt(b, a) THEN b ELSE a

sort(a, b) == IF gt(a, b) THEN <<b, a>> ELSE <<a, b>>

----------------------------------------------------------------------------
(* rect/mod.rs: impl_all for Rect2 and Rect3 *)

is_partially_ordered(self) ==
    \A f \in DOMAIN self.p0 : ge(self.p1[f], self.p0[f])

is_ordered(self) == is_partially_ordered(self)

\* a variant of is_partially_positive comparing with >= instead of >
is_partially_positive_inclusive(self) ==
    \A f \in DOMAIN self.p0 : ge(self.p1[f], self.p0[f])

is_partially_positive(self) ==
    \A f \in DOMAIN self.p0 : gt(self.p1[f], self.p0[f])

is_positive(self) == is_partially_positive(self)

\* a variant of expand that tests the positivity of rhs alone
expand_checks_rhs_only(self, other) ==
    IF ~is_partially_positive(other)
    THEN self
    ELSE Rect([f \in DOMAIN self.p0 |-> partial_min(self.p0[f], other.p0[f])],
              [f \in DOMAIN self.p1 |-> partial_max(self.p1[f], other.p1[f])])

\* a variant of expand that takes the minimum for both corners
expand_min_for_both(self, other) ==
    IF ~is_partially_positive(self) \/ ~is_partially_positive(other)
    THEN self
    ELSE Rect([f \in DOMAIN self.p0 |-> partial_min(self.p0[f], other.p0[f])],
              [f \in DOMAIN self.p1 |-> partial_min(self.p1[f], other.p1[f])])

\* a variant of expand that passes the two corners in the wrong order
expand_corners_swapped(self, other) ==
    IF ~is_partially_positive(self) \/ ~is_partially_positive(other)
    THEN self
    ELSE Rect([f \in DOMAIN self.p1 |-> partial_max(self.p1[f], other.p1[f])],
              [f \in DOMAIN self.p0 |-> partial_min(self.p0[f], other.p0[f])])

\* a variant of expand that passes the operands of partial_max in the other
\* order
expand_max_operands_exchanged(self, other) ==
    IF ~is_partially_positive(self) \/ ~is_partially_positive(other)
    THEN self
    ELSE Rect([f \in DOMAIN self.p0 |-> partial_min(self.p0[f], other.p0[f])],
              [f \in DOMAIN self.p1 |-> partial_max(other.p1[f], self.p1[f])])

\* a variant of expand that takes point1 of rhs
expand_takes_rhs_point1(self, other) ==
    IF ~is_partially_positive(self) \/ ~is_partially_positive(other)
    THEN self
    ELSE Rect([f \in DOMAIN self.p0 |-> partial_min(self.p0[f], other.p0[f])],
              other.p1)

expand(self, other) ==
    IF ~is_partially_positive(self) \/ ~is_partially_positive(other)
    THEN self
    ELSE Rect([f \in DOMAIN self.p0 |-> partial_min(self.p0[f], other.p0[f])],
              [f \in DOMAIN self.p1 |-> partial_max(self.p1[f], other.p1[f])])

\* a variant of intersect with partial_min and partial_max exchanged
intersect_min_max_exchanged(self, other) ==
    IF ~is_partially_positive(self) \/ ~is_partially_positive(other)
    THEN None
    ELSE LET intersection ==
                 Rect([f \in DOMAIN self.p0 |-> partial_min(self.p0[f], other.p0[f])],
                      [f \in DOMAIN self.p1 |-> partial_max(self.p1[f], other.p1[f])])
         IN  IF is_partially_positive(intersection)
             THEN Some(intersection)
             ELSE None

\* a variant of intersect that accepts an overlap of width zero
intersect_inclusive(self, other) ==
    IF ~is_partially_positive(self) \/ ~is_partially_positive(other)
    THEN None
    ELSE LET intersection ==
                 Rect([f \in DOMAIN self.p0 |-> partial_max(self.p0[f], other.p0[f])],
                      [f \in DOMAIN self.p1 |-> partial_min(self.p1[f], other.p1[f])])
         IN  IF is_partially_ordered(intersection)
             THEN Some(intersection)
             ELSE None

\* a variant of intersect that keeps point1 of self
intersect_keeps_self_point1(self, other) ==
    IF ~is_partially_positive(self) \/ ~is_partially_positive(other)
    THEN None
    ELSE LET intersection ==
                 Rect([f \in DOMAIN self.p0 |-> partial_max(self.p0[f], other.p0[f])],
                      self.p1)
         IN  IF is_partially_positive(intersection)
             THEN Some(intersection)
             ELSE None

intersect(self, other) ==
    IF ~is_partially_positive(self) \/ ~is_partially_positive(other)
    THEN None
    ELSE LET intersection ==
                 Rect([f \in DOMAIN self.p0 |-> partial_max(self.p0[f], other.p0[f])],
                      [f \in DOMAIN self.p1 |-> partial_min(self.p1[f], other.p1[f])])
         IN  IF is_partially_positive(intersection)
             THEN Some(intersection)
             ELSE None

\* a variant of partially_ordered that exchanges the two corners whole
partially_ordered_bulk_swap(self) ==
    IF \E f \in DOMAIN self.p0 : gt(self.p0[f], self.p1[f])
    THEN Rect(self.p1, self.p0)
    ELSE self

\* a variant of partially_ordered that exchanges the two values of an axis
\* unless point1 is known to be the greater or equal one
partially_ordered_swaps_incomparable(self) ==
    Rect([f \in DOMAIN self.p0 |->
             IF ge(self.p1[f], self.p0[f]) THEN self.p0[f] ELSE self.p1[f]],
         [f \in DOMAIN self.p0 |->
             IF ge(self.p1[f], self.p0[f]) THEN self.p1[f] ELSE self.p0[f]])

partially_ordered(self) ==
    LET s == [f \in DOMAIN self.p0 |-> sort(self.p0[f], self.p1[f])]
    IN  Rect([f \in DOMAIN self.p0 |-> s[f][1]],
             [f \in DOMAIN self.p0 |-> s[f][2]])

ordered(self) == partially_ordered(self)

----------------------------------------------------------------------------
(* The rects of the model: every Rect2 over 0..MaxCoord and every Rect3    *)
(* over 0..MaxCoord3, ordered or not.                                      *)

Vectors(n, S) == [Fields(n) -> S]
Rects(n, S) == {Rect(a, b) : a \in Vectors(n, S), b \in Vectors(n, S)}
Rect2s == Rects(2, 0..MaxCoord)
Rect3s == Rects(3, 0..MaxCoord3)
\* the rects of the same type as r
SameRects(r) == IF Dim(r.p0) = 2 THEN Rect2s ELSE Rect3s

InitRect ==
    /\ op = "new"
    /\ ty = "i32"
    /\ lhs \in Rect2s \cup Rect3s
    /\ rhs = lhs
    /\ out = None

Intersect ==
    /\ op = "new"
    /\ \E b \in SameRects(lhs) :
          /\ rhs' = b
          /\ out' = intersect(lhs, b)
    /\ op' = "intersect"
    /\ UNCHANGED <<ty, lhs>>

Expand ==
    /\ op = "new"
    /\ \E b \in SameRects(lhs) :
          /\ rhs' = b
          /\ out' = expand(lhs, b)
    /\ op' = "expand"
    /\ UNCHANGED <<ty, lhs>>

Ordered ==
    /\ op = "new"
    /\ op' = "ordered"
    /\ out' = ordered(lhs)
    /\ UNCHANGED <<ty, lhs, rhs>>

PartiallyOrdered ==
    /\ op = "new"
    /\ op' = "partially_ordered"
    /\ out' = partially_ordered(lhs)
    /\ UNCHANGED <<ty, lhs, rhs>>

IsOrdered ==
    /\ op = "new"
    /\ op' = "is_ordered"
    /\ out' = is_ordered(lhs)
    /\ UNCHANGED <<ty, lhs, rhs>>

IsPartiallyOrdered ==
    /\ op = "new"
    /\ op' = "is_partially_ordered"
    /\ out' = is_partially_ordered(lhs)
    /\ UNCHANGED <<ty, lhs, rhs>>

IsPositive ==
    /\ op = "new"
    /\ op' = "is_positive"
    /\ out' = is_positive(lhs)
    /\ UNCHANGED <<ty, lhs, rhs>>

IsPartiallyPositive ==
    /\ op = "new"
    /\ op' = "is_partially_positive"
    /\ out' = is_partially_positive(lhs)
    /\ UNCHANGED <<ty, lhs, rhs>>

NextRect ==
    \/ Intersect
    \/ Expand
    \/ Ordered
    \/ PartiallyOrdered
    \/ IsOrdered
    \/ IsPartiallyOrdered
    \/ IsPositive
    \/ IsPartiallyPositive

SpecRect == InitRect /\ [][NextRect]_vars

----------------------------------------------------------------------------
(* The scalar type T: arithmetic (Add, Mul).  "i32" is a primitive integer *)
(* used far from its limits, so its operators are exact; "saturating" is   *)
(* core::num::Saturating over a signed integer of IntBits bits, whose      *)
(* operators clamp the exact result to the range of the integer.           *)

ScalarTypes == {"i32", "saturating"}

Pow2(n) == 2 ^ n
MinS == 0 - Pow2(IntBits - 1)
MaxS == Pow2(IntBits - 1) - 1

saturate(n) == IF n > MaxS THEN MaxS ELSE IF n < MinS THEN MinS ELSE n

add(t, a, b) ==
    CASE t = "i32" -> a + b
      [] t = "saturating" -> saturate(a + b)

mul(t, a, b) ==
    CASE t = "i32" -> a * b
      [] t = "saturating" -> saturate(a * b)

----------------------------------------------------------------------------
(* vec/mod.rs: impl_binary_ops, the vector-vector operator Mul *)

\* a variant of vec_mul that multiplies every field by the first field of rhs
vec_mul_by_first_field(t, self, other) ==
    [f \in DOMAIN self |-> mul(t, self[f], other.x)]

vec_mul(t, self, other) ==
    [f \in DOMAIN self |-> mul(t, self[f], other[f])]

----------------------------------------------------------------------------
(* vec/mod.rs: impl_all for Vector2, Vector3 and Vector4 *)

\* a variant of sum_fold whose None arm leaves the accumulator None
RECURSIVE sum_fold_none_arm_keeps_none(_, _, _, _)
sum_fold_none_arm_keeps_none(t, self, fields, a) ==
    IF fields = <<>>
    THEN a
    ELSE sum_fold_none_arm_keeps_none(t, self, Tail(fields),
             IF a = None
             THEN None
             ELSE Some(add(t, unwrap(a), self[Head(fields)])))

\* the accumulator a after the statements `a = match a { .. };` of `fields`
RECURSIVE sum_fold(_, _, _, _)
sum_fold(t, self, fields, a) ==
    IF fields = <<>>
    THEN a
    ELSE sum_fold(t, self, Tail(fields),
                  IF a = None
                  THEN Some(self[Head(fields)])
                  ELSE Some(add(t, unwrap(a), self[Head(fields)])))

\* a variant of sum that adds the fields from the last to the first
sum_right_to_left(t, self) ==
    LET n == Dim(self)
        RECURSIVE right(_)
        right(i) == IF i = n
                    THEN self[FieldOrder[i]]
                    ELSE add(t, self[FieldOrder[i]], right(i + 1))
    IN  right(1)

sum(t, self) == unwrap(sum_fold(t, self, FieldSeq(Dim(self)), None))

RECURSIVE product_fold(_, _, _, _)
product_fold(t, self, fields, a) ==
    IF fields = <<>>
    THEN a
    ELSE product_fold(t, self, Tail(fields),
                      IF a = None
                      THEN Some(self[Head(fields)])
                      ELSE Some(mul(t, unwrap(a), self[Head(fields)])))

product(t, self) == unwrap(product_fold(t, self, FieldSeq(Dim(self)), None))

\* a variant of dot that multiplies self by itself and never reads rhs
dot_ignores_rhs(t, self, other) == sum(t, vec_mul(t, self, self))

dot(t, self, other) == sum(t, vec_mul(t, self, other))

\* Into<[T; N]> and Into<(T, .., T)>: the fields in declaration order
into_array(self) == [i \in 1..Dim(self) |-> self[FieldSeq(Dim(self))[i]]]

into_tuple(self) == [i \in 1..Dim(self) |-> self[FieldSeq(Dim(self))[i]]]

\* From<(T, .., T)>: `let (x, y, ..) = t;`
from_tuple(t) == [f \in Fields(Len(t)) |-> t[CHOOSE i \in 1..Len(t) : FieldOrder[i] = f]]

\* core::array::IntoIter: next() yields the items in index order
into_iter(a) == a
next(iter) == IF iter = <<>>
              THEN <<None, iter>>
              ELSE <<Some(Head(iter)), Tail(iter)>>

\* the fields bound by the statements `let $field = iter.next().unwrap();`
RECURSIVE from_array_fields(_, _)
from_array_fields(fields, iter) ==
    IF Len(fields) = 1
    THEN Head(fields) :> unwrap(next(iter)[1])
    ELSE (Head(fields) :> unwrap(next(iter)[1]))
             @@ from_array_fields(Tail(fields), next(iter)[2])

\* a variant of from_array that consumes the array from its last item
from_array_reversed(a) ==
    from_array_fields(FieldSeq(Len(a)), [i \in 1..Len(a) |-> a[Len(a) + 1 - i]])

\* From<[T; N]> of vec/mod.rs
from_array(a) == from_array_fields(FieldSeq(Len(a)), into_iter(a))

\* From<[T; N]> of vector/mod.rs: `let [x, y, ..] = array;`, once per type
vector_from_array(array) ==
    CASE Len(array) = 2 -> [x |-> array[1], y |-> array[2]]
      [] Len(array) = 3 -> [x |-> array[1], y |-> array[2], z |-> array[3]]
      [] Len(array) = 4 -> [x |-> array[1], y |-> array[2], z |-> array[3],
                            w |-> array[4]]

----------------------------------------------------------------------------
(* The vectors of the model: every Vector2, Vector3 and Vector4 over the   *)
(* scalars -(MaxVal + 1)..MaxVal that the bounded scalar types hold.       *)

Scalars == {v \in MinS..MaxS : 0 - (MaxVal + 1) <= v /\ v <= MaxVal}
AllVectors == Vectors(2, Scalars) \cup Vectors(3, Scalars) \cup Vectors(4, Scalars)

InitVec ==
    /\ op = "new"
    /\ ty \in ScalarTypes
    /\ lhs \in AllVectors
    /\ rhs = lhs
    /\ out = None

Sum ==
    /\ op = "new"
    /\ op' = "sum"
    /\ out' = sum(ty, lhs)
    /\ UNCHANGED <<ty, lhs, rhs>>

Product ==
    /\ op = "new"
    /\ op' = "product"
    /\ out' = product(ty, lhs)
    /\ UNCHANGED <<ty, lhs, rhs>>

IntoArray ==
    /\ op = "new"
    /\ op' = "into_array"
    /\ out' = into_array(lhs)
    /\ UNCHANGED <<ty, lhs, rhs>>

IntoTuple ==
    /\ op = "new"
    /\ op' = "into_tuple"
    /\ out' = into_tuple(lhs)
    /\ UNCHANGED <<ty, lhs, rhs>>

\* the array a vector was converted into, converted back (vec/mod.rs)
FromArray ==
    /\ op = "into_array"
    /\ op' = "from_array"
    /\ out' = from_array(out)
    /\ UNCHANGED <<ty, lhs, rhs>>

\* the array a vector was converted into, converted back (vector/mod.rs)
VectorFromArray ==
    /\ op = "into_array"
    /\ op' = "vector_from_array"
    /\ out' = vector_from_array(out)
    /\ UNCHANGED <<ty, lhs, rhs>>

\* the tuple a vector was converted into, converted back
FromTuple ==
    /\ op = "into_tuple"
    /\ op' = "from_tuple"
    /\ out' = from_tuple(out)
    /\ UNCHANGED <<ty, lhs, rhs>>

NextVec ==
    \/ Sum
    \/ Product
    \/ IntoArray
    \/ IntoTuple
    \/ FromArray
    \/ VectorFromArray
    \/ FromTuple

SpecVec == InitVec /\ [][NextVec]_vars

Dot ==
    /\ op = "new"
    /\ \E b \in Vectors(Dim(lhs), Scalars) :
          /\ rhs' = b
          /\ out' = dot(ty, lhs, b)
    /\ op' = "dot"
    /\ UNCHANGED <<ty, lhs>>

NextDot == Dot

SpecDot == InitVec /\ [][NextDot]_vars

----------------------------------------------------------------------------
(* The scalar type T: Sub and Neg, as Add and Mul above *)

sub(t, a, b) ==
    CASE t = "i32" -> a - b
      [] t = "saturating" -> saturate(a - b)

neg(t, a) ==
    CASE t = "i32" -> 0 - a
      [] t = "saturating" -> saturate(0 - a)

----------------------------------------------------------------------------
(* vec/mod.rs: impl_unary_ops, the operator Neg *)

vec_neg(t, self) == [f \in DOMAIN self |-> neg(t, self[f])]

----------------------------------------------------------------------------
(* vec/mod.rs: impl Cross for Vector3 *)

\* a variant of cross whose z adds the two products
cross_z_adds(t, self, other) ==
    [x |-> sub(t, mul(t, self.y, other.z), mul(t, self.z, other.y)),
     y |-> sub(t, mul(t, self.z, other.x), mul(t, self.x, other.z)),
     z |-> add(t, mul(t, self.x, other.y), mul(t, self.y, other.x))]

\* a variant of cross that stores each product difference one field later
cross_fields_rotated(t, self, other) ==
    [y |-> sub(t, mul(t, self.y, other.z), mul(t, self.z, other.y)),
     z |-> sub(t, mul(t, self.z, other.x), mul(t, self.x, other.z)),
     x |-> sub(t, mul(t, self.x, other.y), mul(t, self.y, other.x))]

cross(t, self, other) ==
    [x |-> sub(t, mul(t, self.y, other.z), mul(t, self.z, other.y)),
     y |-> sub(t, mul(t, self.z, other.x), mul(t, self.x, other.z)),
     z |-> sub(t, mul(t, self.x, other.y), mul(t, self.y, other.x))]

InitCross ==
    /\ op = "new"
    /\ ty \in ScalarTypes
    /\ lhs \in Vectors(3, Scalars)
    /\ rhs = lhs
    /\ out = None

Cross ==
    /\ op = "new"
    /\ \E b \in Vectors(3, Scalars) :
          /\ rhs' = b
          /\ out' = cross(ty, lhs, b)
    /\ op' = "cross"
    /\ UNCHANGED <<ty, lhs>>

NextCross == Cross

SpecCross == InitCross /\ [][NextCross]_vars

----------------------------------------------------------------------------
(* Result<T, E> *)

Ok(v) == <<"Ok", v>>
Err(e) == <<"Err", e>>
is_ok(r) == r[1] = "Ok"
is_err(r) == r[1] = "Err"

----------------------------------------------------------------------------
(* vec/mod.rs: try_convert and try_ref_convert.  T is the signed integer   *)
(* of IntBits bits and U the unsigned integer of the same width, so the    *)
(* negative scalars have no image in U.  The error of the scalar           *)
(* conversion reports the offending scalar: the most that the conversion   *)
(* of one scalar can tell, so that the errors of different scalars differ. *)

MaxU == Pow2(IntBits) - 1

try_into(v) == IF 0 <= v /\ v <= MaxU THEN Ok(v) ELSE Err([value |-> v])

\* the struct literal `$vec { $($field: self.$field.try_into()?),* }`: the
\* fields are converted in the order of `fields`, and `?` returns the error of
\* a field before the next field is converted
RECURSIVE try_convert_fields(_, _)
try_convert_fields(self, fields) ==
    LET r == try_into(self[Head(fields)])
    IN  IF is_err(r)
        THEN r
        ELSE IF Len(fields) = 1
             THEN Ok(Head(fields) :> r[2])
             ELSE LET rest == try_convert_fields(self, Tail(fields))
                  IN  IF is_err(rest)
                      THEN rest
                      ELSE Ok((Head(fields) :> r[2]) @@ rest[2])

\* a variant of try_convert that converts every field and returns the error
\* of the last field that failed
try_convert_last_error(self) ==
    LET n == Dim(self)
        bad == {i \in 1..n : is_err(try_into(self[FieldOrder[i]]))}
    IN  IF bad = {}
        THEN Ok([f \in DOMAIN self |-> try_into(self[f])[2]])
        ELSE try_into(self[FieldOrder[CHOOSE i \in bad : \A j \in bad : j <= i]])

\* a variant of try_convert whose error also names the field that failed
try_convert_error_names_field(self) ==
    LET n == Dim(self)
        bad == {i \in 1..n : is_err(try_into(self[FieldOrder[i]]))}
        first == FieldOrder[CHOOSE i \in bad : \A j \in bad : i <= j]
    IN  IF bad = {}
        THEN Ok([f \in DOMAIN self |-> try_into(self[f])[2]])
        ELSE Err([field |-> first, value |-> self[first]])

try_convert(self) == try_convert_fields(self, FieldSeq(Dim(self)))

try_ref_convert(self) == try_convert_fields(self, FieldSeq(Dim(self)))

InitConvert ==
    /\ op = "new"
    /\ ty = "i32"
    /\ lhs \in AllVectors
    /\ rhs = lhs
    /\ out = None

TryConvert ==
    /\ op = "new"
    /\ out' = try_convert(lhs)
    /\ op' = "try_convert"
    /\ UNCHANGED <<ty, lhs, rhs>>

TryRefConvert ==
    /\ op = "new"
    /\ out' = try_ref_convert(lhs)
    /\ op' = "try_ref_convert"
    /\ UNCHANGED <<ty, lhs, rhs>>

NextConvert ==
    \/ TryConvert
    \/ TryRefConvert

SpecConvert == InitConvert /\ [][NextConvert]_vars

----------------------------------------------------------------------------
(* The scalar type T of the checked, saturating and wrapping operations:   *)
(* "iN", the signed primitive integer of IntBits bits.  An operation is    *)
(* named as its trait method is; arith gives the arithmetic it performs    *)
(* and exact the result of that arithmetic over the integers, the          *)
(* division truncating toward zero as the division of the primitive does.  *)

arith(o) ==
    CASE o \in {"add", "try_add", "checked_add", "saturating_add", "wrapping_add"} ->
             "add"
      [] o \in {"sub", "try_sub", "checked_sub", "saturating_sub", "wrapping_sub"} ->
             "sub"
      [] o \in {"mul", "try_mul", "checked_mul", "saturating_mul", "wrapping_mul",
                "mul_scalar", "try_mul_scalar", "saturating_mul_scalar",
                "wrapping_mul_scalar"} -> "mul"
      [] o \in {"div", "try_div", "checked_div", "div_scalar", "try_div_scalar"} ->
             "div"
      [] o \in {"neg", "try_neg", "checked_neg", "saturating_neg", "wrapping_neg"} ->
             "neg"

abs(a) == IF a < 0 THEN 0 - a ELSE a

exact(o, a, b) ==
    CASE arith(o) = "add" -> a + b
      [] arith(o) = "sub" -> a - b
      [] arith(o) = "mul" -> a * b
      [] arith(o) = "div" -> IF (a < 0) = (b < 0)
                             THEN abs(a) \div abs(b)
                             ELSE 0 - (abs(a) \div abs(b))
      [] arith(o) = "neg" -> 0 - a

\* the scalars of the checked operations: the two bounds of iN, zero and
\* minus one
EdgeScalars == {MinS, 0 - 1, 0, MaxS}
EdgeVectors ==
    Vectors(2, EdgeScalars) \cup Vectors(3, EdgeScalars) \cup Vectors(4, EdgeScalars)

\* T as TryAdd, TrySub, TryMul, TryDiv, TryNeg: the error reports what went
\* wrong and the value that has no place in T, so that the errors of
\* different fields differ
scalar_try(o, a, b) ==
    IF arith(o) = "div" /\ b = 0
    THEN Err([kind |-> "DivideByZero", value |-> a])
    ELSE IF exact(o, a, b) < MinS \/ exact(o, a, b) > MaxS
         THEN Err([kind |-> "Overflow", value |-> exact(o, a, b)])
         ELSE Ok(exact(o, a, b))

\* T as CheckedAdd, CheckedSub, CheckedMul, CheckedDiv, CheckedNeg
scalar_checked(o, a, b) ==
    IF arith(o) = "div" /\ b = 0
    THEN None
    ELSE IF exact(o, a, b) < MinS \/ exact(o, a, b) > MaxS
         THEN None
         ELSE Some(exact(o, a, b))

----------------------------------------------------------------------------
(* vec/ext_ops.rs: impl_try_unary_ops, impl_try_scalar_ops and             *)
(* impl_try_binary_ops                                                     *)

\* the struct literal `$vec { $($field: $trait::$fn(self.$field, ..)?),* }`,
\* other holding the right operand of each field
RECURSIVE try_fields(_, _, _, _)
try_fields(o, self, other, fields) ==
    LET r == scalar_try(o, self[Head(fields)], other[Head(fields)])
    IN  IF is_err(r)
        THEN r
        ELSE IF Len(fields) = 1
             THEN Ok(Head(fields) :> r[2])
             ELSE LET rest == try_fields(o, self, other, Tail(fields))
                  IN  IF is_err(rest)
                      THEN rest
                      ELSE Ok((Head(fields) :> r[2]) @@ rest[2])

try_unary(o, self) == try_fields(o, self, self, FieldSeq(Dim(self)))

try_scalar(o, self, k) ==
    try_fields(o, self, [f \in DOMAIN self |-> k], FieldSeq(Dim(self)))

\* a variant of try_binary that tries every field and returns the error of
\* the last field that failed
try_binary_last_error(o, self, other) ==
    LET n == Dim(self)
        r == [f \in DOMAIN self |-> scalar_try(o, self[f], other[f])]
        bad == {i \in 1..n : is_err(r[FieldOrder[i]])}
    IN  IF bad = {}
        THEN Ok([f \in DOMAIN self |-> r[f][2]])
        ELSE r[FieldOrder[CHOOSE i \in bad : \A j \in bad : j <= i]]

try_binary(o, self, other) == try_fields(o, self, other, FieldSeq(Dim(self)))

----------------------------------------------------------------------------
(* vec/num_traits.rs: impl_checked_unary_ops and impl_checked_binary_ops   *)

\* the statements `let $field = match .. { None => return None, Some(n) => n };`
\* followed by `Some($vec { $($field),* })`
RECURSIVE checked_fields(_, _, _, _)
checked_fields(o, self, other, fields) ==
    LET r == scalar_checked(o, self[Head(fields)], other[Head(fields)])
    IN  IF r = None
        THEN None
        ELSE IF Len(fields) = 1
             THEN Some(Head(fields) :> unwrap(r))
             ELSE LET rest == checked_fields(o, self, other, Tail(fields))
                  IN  IF rest = None
                      THEN None
                      ELSE Some((Head(fields) :> unwrap(r)) @@ unwrap(rest))

checked_unary(o, self) == checked_fields(o, self, self, FieldSeq(Dim(self)))

checked_binary(o, self, other) ==
    checked_fields(o, self, other, FieldSeq(Dim(self)))

InitChecked ==
    /\ op = "new"
    /\ ty = "iN"
    /\ lhs \in EdgeVectors
    /\ rhs = lhs
    /\ out = None

TryUnary ==
    /\ op = "new"
    /\ op' = "try_neg"
    /\ out' = try_unary("try_neg", lhs)
    /\ UNCHANGED <<ty, lhs, rhs>>

TryScalar ==
    /\ op = "new"
    /\ \E o \in {"try_div_scalar", "try_mul_scalar"} :
       \E k \in EdgeScalars :
          /\ op' = o
          /\ rhs' = k
          /\ out' = try_scalar(o, lhs, k)
    /\ UNCHANGED <<ty, lhs>>

TryBinary ==
    /\ op = "new"
    /\ \E o \in {"try_add", "try_div", "try_mul", "try_sub"} :
       \E b \in Vectors(Dim(lhs), EdgeScalars) :
          /\ op' = o
          /\ rhs' = b
          /\ out' = try_binary(o, lhs, b)
    /\ UNCHANGED <<ty, lhs>>

CheckedUnary ==
    /\ op = "new"
    /\ op' = "checked_neg"
    /\ out' = checked_unary("checked_neg", lhs)
    /\ UNCHANGED <<ty, lhs, rhs>>

CheckedBinary ==
    /\ op = "new"
    /\ \E o \in {"checked_add", "checked_div", "checked_mul", "checked_sub"} :
       \E b \in Vectors(Dim(lhs), EdgeScalars) :
          /\ op' = o
          /\ rhs' = b
          /\ out' = checked_binary(o, lhs, b)
    /\ UNCHANGED <<ty, lhs>>

NextChecked ==
    \/ TryUnary
    \/ TryScalar
    \/ TryBinary
    \/ CheckedUnary
    \/ CheckedBinary

SpecChecked == InitChecked /\ [][NextChecked]_vars

----------------------------------------------------------------------------
(* vec/mod.rs: impl_binary_ops and impl_scalar_ops, the operators Add, Sub *)
(* and Div and the vector-scalar operators Mul and Div.  The division of   *)
(* an integer truncates toward zero; a zero divisor panics in the          *)
(* division of the scalar, and the actions below divide by non-zero        *)
(* scalars only.                                                           *)

div(t, a, b) ==
    CASE t = "i32" -> exact("div", a, b)
      [] t = "saturating" -> saturate(exact("div", a, b))

vec_add(t, self, other) == [f \in DOMAIN self |-> add(t, self[f], other[f])]

vec_sub(t, self, other) == [f \in DOMAIN self |-> sub(t, self[f], other[f])]

vec_div(t, self, other) == [f \in DOMAIN self |-> div(t, self[f], other[f])]

vec_mul_scalar(t, self, k) == [f \in DOMAIN self |-> mul(t, self[f], k)]

vec_div_scalar(t, self, k) == [f \in DOMAIN self |-> div(t, self[f], k)]

----------------------------------------------------------------------------
(* The saturating and wrapping operations of the scalar iN: the exact      *)
(* result clamped to MinS..MaxS, or reduced modulo 2^IntBits into it.      *)

wrap(n) == ((n - MinS) % Pow2(IntBits)) + MinS

SaturatingOps ==
    {"saturating_neg", "saturating_mul_scalar",
     "saturating_add", "saturating_mul", "saturating_sub"}

WrappingOps ==
    {"wrapping_neg", "wrapping_mul_scalar",
     "wrapping_add", "wrapping_mul", "wrapping_sub"}

\* T as SaturatingAdd, .., WrappingNeg
scalar_ext(o, a, b) ==
    IF o \in SaturatingOps
    THEN saturate(exact(o, a, b))
    ELSE wrap(exact(o, a, b))

----------------------------------------------------------------------------
(* vec/ext_ops.rs: impl_unary_ops, impl_scalar_ops and impl_binary_ops;    *)
(* vec/num_traits.rs: impl_unary_ops and impl_binary_ops                   *)

ext_unary(o, self) == [f \in DOMAIN self |-> scalar_ext(o, self[f], self[f])]

ext_scalar(o, self, k) == [f \in DOMAIN self |-> scalar_ext(o, self[f], k)]

\* a variant of ext_binary whose wrapping operations clamp as the saturating
\* operations do
ext_binary_always_saturates(o, self, other) ==
    [f \in DOMAIN self |-> saturate(exact(o, self[f], other[f]))]

\* a variant of ext_binary in which an overflow in x spills into the other
\* fields: they take the result of x
ext_binary_overflow_spills(o, self, other) ==
    LET e == exact(o, self.x, other.x)
    IN  [f \in DOMAIN self |->
            IF e < MinS \/ e > MaxS
            THEN scalar_ext(o, self.x, other.x)
            ELSE scalar_ext(o, self[f], other[f])]

ext_binary(o, self, other) ==
    [f \in DOMAIN self |-> scalar_ext(o, self[f], other[f])]

num_unary(o, self) == [f \in DOMAIN self |-> scalar_ext(o, self[f], self[f])]

num_binary(o, self, other) ==
    [f \in DOMAIN self |-> scalar_ext(o, self[f], other[f])]

\* saturating_neg and wrapping_neg of ext_ops, wrapping_neg of num_traits
SatWrapUnary ==
    /\ op = "new"
    /\ \E o \in {"saturating_neg", "wrapping_neg"} :
          /\ op' = o
          /\ out' \in {ext_unary(o, lhs)}
                        \cup (IF o = "wrapping_neg"
                              THEN {num_unary(o, lhs)}
                              ELSE {})
    /\ UNCHANGED <<ty, lhs, rhs>>

SatWrapScalar ==
    /\ op = "new"
    /\ \E o \in {"saturating_mul_scalar", "wrapping_mul_scalar"} :
       \E k \in EdgeScalars :
          /\ op' = o
          /\ rhs' = k
          /\ out' = ext_scalar(o, lhs, k)
    /\ UNCHANGED <<ty, lhs>>

\* the six vector-vector operations, of ext_ops or of num_traits
SatWrapBinary ==
    /\ op = "new"
    /\ \E o \in {"saturating_add", "saturating_mul", "saturating_sub",
                 "wrapping_add", "wrapping_mul", "wrapping_sub"} :
       \E b \in Vectors(Dim(lhs), EdgeScalars) :
          /\ op' = o
          /\ rhs' = b
          /\ out' \in {ext_binary(o, lhs, b), num_binary(o, lhs, b)}
    /\ UNCHANGED <<ty, lhs>>

NextSatWrap ==
    \/ SatWrapUnary
    \/ SatWrapScalar
    \/ SatWrapBinary

SpecSatWrap == InitChecked /\ [][NextSatWrap]_vars

----------------------------------------------------------------------------
(* rect/mod.rs: impl_unary_ops (Neg), impl_scalar_ops (Div, Mul),          *)
(* impl_vec_ops (Add, Div, Mul, Sub); rect/ext_ops.rs: impl_unary_ops,     *)
(* impl_scalar_ops, impl_vec_ops for the saturating and wrapping traits.   *)
(* Every impl calls the operation of the same trait on each corner.        *)

\* $trait::$fn(self.0, rhs) for a vector self.0 and a scalar rhs
vec_scalar_op(o, t, self, k) ==
    CASE o = "mul_scalar" -> vec_mul_scalar(t, self, k)
      [] o = "div_scalar" -> vec_div_scalar(t, self, k)

\* $trait::$fn(self.0, rhs) for two vectors
vec_binary_op(o, t, self, other) ==
    CASE o = "add" -> vec_add(t, self, other)
      [] o = "div" -> vec_div(t, self, other)
      [] o = "mul" -> vec_mul(t, self, other)
      [] o = "sub" -> vec_sub(t, self, other)

rect_neg(t, self) == Rect(vec_neg(t, self.p0), vec_neg(t, self.p1))

rect_scalar_op(o, t, self, k) ==
    Rect(vec_scalar_op(o, t, self.p0, k), vec_scalar_op(o, t, self.p1, k))

\* a variant of rect_vec_op that computes both corners from point0
rect_vec_op_point0_twice(o, t, self, other) ==
    Rect(vec_binary_op(o, t, self.p0, other), vec_binary_op(o, t, self.p0, other))

rect_vec_op(o, t, self, other) ==
    Rect(vec_binary_op(o, t, self.p0, other), vec_binary_op(o, t, self.p1, other))

rect_ext_unary(o, self) == Rect(ext_unary(o, self.p0), ext_unary(o, self.p1))

rect_ext_scalar(o, self, k) ==
    Rect(ext_scalar(o, self.p0, k), ext_scalar(o, self.p1, k))

rect_ext_vec(o, self, other) ==
    Rect(ext_binary(o, self.p0, other), ext_binary(o, self.p1, other))

----------------------------------------------------------------------------
(* rect/mod.rs: width, height, size of impl_all and depth of Rect3 *)

width(t, self) == sub(t, self.p1.x, self.p0.x)

height(t, self) == sub(t, self.p1.y, self.p0.y)

depth(t, self) == sub(t, self.p1.z, self.p0.z)

\* a variant of size that subtracts point1 from point0
size_reversed(t, self) == vec_sub(t, self.p0, self.p1)

size(t, self) == vec_sub(t, self.p1, self.p0)

----------------------------------------------------------------------------
(* The rects of the operators: every Rect2 over the scalars EdgeScalars    *)
(* and every Rect3 over two of them, of the scalar type "i32" for the      *)
(* operators of core::ops and "iN" for the saturating and wrapping traits. *)

EdgeScalars3 == {0 - 1, MaxS}

\* the scalars that the corners of self hold
ScalarsOf(self) == IF Dim(self.p0) = 2 THEN EdgeScalars ELSE EdgeScalars3

InitRectOps ==
    /\ op = "new"
    /\ ty \in {"i32", "iN"}
    /\ lhs \in Rects(2, EdgeScalars) \cup Rects(3, EdgeScalars3)
    /\ rhs = lhs
    /\ out = None

RectNeg ==
    /\ op = "new"
    /\ ty = "i32"
    /\ op' = "neg"
    /\ out' = rect_neg(ty, lhs)
    /\ UNCHANGED <<ty, lhs, rhs>>

RectScalarOp ==
    /\ op = "new"
    /\ ty = "i32"
    /\ \E o \in {"div_scalar", "mul_scalar"} :
       \E k \in ScalarsOf(lhs) :
          /\ o = "div_scalar" => k # 0
          /\ op' = o
          /\ rhs' = k
          /\ out' = rect_scalar_op(o, ty, lhs, k)
    /\ UNCHANGED <<ty, lhs>>

RectVecOp ==
    /\ op = "new"
    /\ ty = "i32"
    /\ \E o \in {"add", "div", "mul", "sub"} :
       \E b \in Vectors(Dim(lhs.p0), ScalarsOf(lhs)) :
          /\ o = "div" => \A f \in DOMAIN b : b[f] # 0
          /\ op' = o
          /\ rhs' = b
          /\ out' = rect_vec_op(o, ty, lhs, b)
    /\ UNCHANGED <<ty, lhs>>

RectExtUnary ==
    /\ op = "new"
    /\ ty = "iN"
    /\ \E o \in {"saturating_neg", "wrapping_neg"} :
          /\ op' = o
          /\ out' = rect_ext_unary(o, lhs)
    /\ UNCHANGED <<ty, lhs, rhs>>

RectExtScalar ==
    /\ op = "new"
    /\ ty = "iN"
    /\ \E o \in {"saturating_mul_scalar", "wrapping_mul_scalar"} :
       \E k \in ScalarsOf(lhs) :
          /\ op' = o
          /\ rhs' = k
          /\ out' = rect_ext_scalar(o, lhs, k)
    /\ UNCHANGED <<ty, lhs>>

RectExtVec ==
    /\ op = "new"
    /\ ty = "iN"
    /\ \E o \in {"saturating_add", "saturating_mul", "saturating_sub",
                 "wrapping_add", "wrapping_mul", "wrapping_sub"} :
       \E b \in Vectors(Dim(lhs.p0), ScalarsOf(lhs)) :
          /\ op' = o
          /\ rhs' = b
          /\ out' = rect_ext_vec(o, lhs, b)
    /\ UNCHANGED <<ty, lhs>>

Width ==
    /\ op = "new"
    /\ ty = "i32"
    /\ op' = "width"
    /\ out' = width(ty, lhs)
    /\ UNCHANGED <<ty, lhs, rhs>>

Height ==
    /\ op = "new"
    /\ ty = "i32"
    /\ op' = "height"
    /\ out' = height(ty, lhs)
    /\ UNCHANGED <<ty, lhs, rhs>>

Depth ==
    /\ op = "new"
    /\ ty = "i32"
    /\ Dim(lhs.p0) = 3
    /\ op' = "depth"
    /\ out' = depth(ty, lhs)
    /\ UNCHANGED <<ty, lhs, rhs>>

Size ==
    /\ op = "new"
    /\ ty = "i32"
    /\ op' = "size"
    /\ out' = size(ty, lhs)
    /\ UNCHANGED <<ty, lhs, rhs>>

NextRectOps ==
    \/ RectNeg
    \/ RectScalarOp
    \/ RectVecOp
    \/ RectExtUnary
    \/ RectExtScalar
    \/ RectExtVec
    \/ Width
    \/ Height
    \/ Depth
    \/ Size

SpecRectOps == InitRectOps /\ [][NextRectOps]_vars

----------------------------------------------------------------------------
(* The dot product of every pair of vectors over the scalars EdgeScalars,  *)
(* for both scalar types.                                                  *)

InitEdge ==
    /\ op = "new"
    /\ ty \in ScalarTypes
    /\ lhs \in EdgeVectors
    /\ rhs = lhs
    /\ out = None

DotEdge ==
    /\ op = "new"
    /\ \E b \in Vectors(Dim(lhs), EdgeScalars) :
          /\ rhs' = b
          /\ out' = dot(ty, lhs, b)
    /\ op' = "dot"
    /\ UNCHANGED <<ty, lhs>>

NextDotEdge == DotEdge

SpecDotEdge == InitEdge /\ [][NextDotEdge]_vars

----------------------------------------------------------------------------
(* vec/mod.rs: the operators of core::ops that impl_all gives a vector,    *)
(* in every ownership shape.  A call is described by its operator, the     *)
(* form of its right operand ("scalar" or "vector"), its shape, and        *)
(* whether an impl of the operator exists for these operand types: a call  *)
(* without an impl is rejected when the program is built, and returns      *)
(* nothing.  An operand passed by value is moved into the call.            *)

Call(o, form, shape, found) ==
    [operator |-> o, form |-> form, shape |-> shape, impl |-> found]

Moved == [moved |-> TRUE]

\* impl_scalar_ops!, impl_scalar_assign_ops!, impl_binary_ops! and
\* impl_binary_assign_ops! of impl_all
scalar_impls == {"div", "mul"}
scalar_assign_impls == {"div_assign", "mul_assign"}
binary_impls == {"add", "div", "mul", "sub"}
binary_assign_impls == {"add_assign", "div_assign", "mul_assign", "sub_assign"}

\* $trait::$fn(a, b) for the scalar T
scalar_binary(o, t, a, b) ==
    CASE o \in {"add", "add_assign"} -> add(t, a, b)
      [] o \in {"div", "div_assign"} -> div(t, a, b)
      [] o \in {"mul", "mul_assign"} -> mul(t, a, b)
      [] o \in {"sub", "sub_assign"} -> sub(t, a, b)

\* the four impls of impl_scalar_ops: ($vec<T>, T), (&$vec<T>, T),
\* ($vec<T>, &T), (&$vec<T>, &T)
scalar_owned_owned(o, t, self, k) ==
    [f \in DOMAIN self |-> scalar_binary(o, t, self[f], k)]

\* a variant of scalar_ref_owned that pairs the scalar with x in every field
scalar_ref_owned_x_only(o, t, self, k) ==
    [f \in DOMAIN self |-> scalar_binary(o, t, self.x, k)]

scalar_ref_owned(o, t, self, k) ==
    [f \in DOMAIN self |-> scalar_binary(o, t, self[f], k)]

scalar_owned_ref(o, t, self, k) ==
    [f \in DOMAIN self |-> scalar_binary(o, t, self[f], k)]

scalar_ref_ref(o, t, self, k) ==
    [f \in DOMAIN self |-> scalar_binary(o, t, self[f], k)]

\* the four impls of impl_binary_ops
binary_owned_owned(o, t, self, other) ==
    [f \in DOMAIN self |-> scalar_binary(o, t, self[f], other[f])]

binary_ref_owned(o, t, self, other) ==
    [f \in DOMAIN self |-> scalar_binary(o, t, self[f], other[f])]

binary_owned_ref(o, t, self, other) ==
    [f \in DOMAIN self |-> scalar_binary(o, t, self[f], other[f])]

\* a variant of binary_ref_ref that exchanges the two operands
binary_ref_ref_exchanged(o, t, self, other) ==
    [f \in DOMAIN self |-> scalar_binary(o, t, other[f], self[f])]

binary_ref_ref(o, t, self, other) ==
    [f \in DOMAIN self |-> scalar_binary(o, t, self[f], other[f])]

Shapes == {"owned_owned", "ref_owned", "owned_ref", "ref_ref"}

\* the impl that the types of the operands select
scalar_op(shape, o, t, self, k) ==
    CASE shape = "owned_owned" -> scalar_owned_owned(o, t, self, k)
      [] shape = "ref_owned" -> scalar_ref_owned(o, t, self, k)
      [] shape = "owned_ref" -> scalar_owned_ref(o, t, self, k)
      [] shape = "ref_ref" -> scalar_ref_ref(o, t, self, k)

binary_op(shape, o, t, self, other) ==
    CASE shape = "owned_owned" -> binary_owned_owned(o, t, self, other)
      [] shape = "ref_owned" -> binary_ref_owned(o, t, self, other)
      [] shape = "owned_ref" -> binary_owned_ref(o, t, self, other)
      [] shape = "ref_ref" -> binary_ref_ref(o, t, self, other)

\* what the caller still holds of an operand after the call
after_call(borrowed, operand) == IF borrowed THEN operand ELSE Moved

----------------------------------------------------------------------------
(* vec/mod.rs: impl_scalar_assign_ops and impl_binary_assign_ops;          *)
(* vector/ops.rs: impl_vector_assign_ops, whose right operand may also be  *)
(* a tuple or an array                                                     *)

\* the statements `$trait::$fn(&mut self.$field, rhs.$field);` of `fields`,
\* one after the other
RECURSIVE assign_fields(_, _, _, _, _)
assign_fields(o, t, self, other, fields) ==
    IF fields = <<>>
    THEN self
    ELSE assign_fields(o, t,
                       [self EXCEPT ![Head(fields)] =
                            scalar_binary(o, t, self[Head(fields)], other[Head(fields)])],
                       other, Tail(fields))

scalar_assign(o, t, self, k) ==
    assign_fields(o, t, self, [f \in DOMAIN self |-> k], FieldSeq(Dim(self)))

\* a variant of binary_assign that leaves the last field as it was
binary_assign_skips_last(o, t, self, other) ==
    assign_fields(o, t, self, other, FieldSeq(Dim(self) - 1))

binary_assign(o, t, self, other) ==
    assign_fields(o, t, self, other, FieldSeq(Dim(self)))

\* `let ($($field),*) = rhs;` and `let [$($field),*] = rhs;` bind the items
\* of the operand to the fields by position
vector_assign_tuple(o, t, self, tuple) ==
    assign_fields(o, t, self,
                  [f \in DOMAIN self |->
                      tuple[CHOOSE i \in 1..Len(tuple) : FieldOrder[i] = f]],
                  FieldSeq(Dim(self)))

vector_assign_array(o, t, self, array) ==
    assign_fields(o, t, self,
                  [f \in DOMAIN self |->
                      array[CHOOSE i \in 1..Len(array) : FieldOrder[i] = f]],
                  FieldSeq(Dim(self)))

AssignShapes == {"owned", "ref", "tuple", "array"}

----------------------------------------------------------------------------
(* The calls of the operators: two vectors of the same dimension over the  *)
(* scalars OpScalars of the scalar type "i32", and a scalar of OpScalars   *)
(* for the vector-scalar forms.  A zero divisor panics in the division of  *)
(* the scalar and is not drawn.                                            *)

OpScalars == {0 - 1, 0, MaxVal + 1}

OpVectors ==
    Vectors(2, OpScalars) \cup Vectors(3, OpScalars) \cup Vectors(4, OpScalars)

ArithmeticOperators == {"add", "div", "mul", "sub"}

InitOps ==
    /\ op = Call("new", "none", "none", TRUE)
    /\ ty = "i32"
    /\ lhs \in OpVectors
    /\ rhs \in Vectors(Dim(lhs), OpScalars)
    /\ out = None

\* `lhs op k` for a scalar k
VecScalarOp ==
    /\ op.operator = "new"
    /\ \E o \in ArithmeticOperators, s \in Shapes, k \in OpScalars :
          /\ o = "div" => k # 0
          /\ op' = Call(o, "scalar", s, o \in scalar_impls)
          /\ rhs' = k
          /\ IF o \in scalar_impls
             THEN /\ out' = scalar_op(s, o, ty, lhs, k)
                  /\ lhs' = after_call(s \in {"ref_owned", "ref_ref"}, lhs)
             ELSE /\ out' = None
                  /\ lhs' = lhs
    /\ UNCHANGED ty

\* `lhs op rhs` for two vectors
VecBinaryOp ==
    /\ op.operator = "new"
    /\ \E o \in ArithmeticOperators, s \in Shapes :
          /\ o = "div" => \A f \in DOMAIN rhs : rhs[f] # 0
          /\ op' = Call(o, "vector", s, o \in binary_impls)
          /\ IF o \in binary_impls
             THEN /\ out' = binary_op(s, o, ty, lhs, rhs)
                  /\ lhs' = after_call(s \in {"ref_owned", "ref_ref"}, lhs)
                  /\ rhs' = after_call(s \in {"owned_ref", "ref_ref"}, rhs)
             ELSE /\ out' = None
                  /\ UNCHANGED <<lhs, rhs>>
    /\ UNCHANGED ty

\* `lhs op= k` for a scalar k, passed by value or by reference
VecScalarAssign ==
    /\ op.operator = "new"
    /\ \E o \in scalar_assign_impls, s \in {"owned", "ref"}, k \in OpScalars :
          /\ o = "div_assign" => k # 0
          /\ op' = Call(o, "scalar", s, TRUE)
          /\ rhs' = k
          /\ lhs' = scalar_assign(o, ty, lhs, k)
    /\ UNCHANGED <<ty, out>>

\* `lhs op= rhs` for a vector, a reference to a vector, a tuple or an array
VecBinaryAssign ==
    /\ op.operator = "new"
    /\ \E o \in binary_assign_impls, s \in AssignShapes :
          /\ o = "div_assign" => \A f \in DOMAIN rhs : rhs[f] # 0
          /\ op' = Call(o, "vector", s, TRUE)
          /\ lhs' = CASE s \in {"owned", "ref"} -> binary_assign(o, ty, lhs, rhs)
                      [] s = "tuple" ->
                             vector_assign_tuple(o, ty, lhs, into_tuple(rhs))
                      [] s = "array" ->
                             vector_assign_array(o, ty, lhs, into_array(rhs))
          /\ rhs' = after_call(s = "ref", rhs)
    /\ UNCHANGED <<ty, out>>

NextOps ==
    \/ VecScalarOp
    \/ VecBinaryOp
    \/ VecScalarAssign
    \/ VecBinaryAssign

SpecOps == InitOps /\ [][NextOps]_vars

----------------------------------------------------------------------------
(* rect/mod.rs: partial_max, partial_min and sort on every pair of scalars *)
(* of a type that is only PartialOrd: the integers 0..MaxVal, their twins  *)
(* and aliases, and NaN.                                                   *)

PartialScalars ==
    {NaN} \cup (0..MaxVal) \cup {Twin(n) : n \in 0..MaxVal}
          \cup {Alias(n) : n \in 0..MaxVal}

InitPartial ==
    /\ op = "new"
    /\ ty = "PartialOrd"
    /\ lhs \in PartialScalars
    /\ rhs \in PartialScalars
    /\ out = None

PartialMax ==
    /\ op = "new"
    /\ op' = "partial_max"
    /\ out' = partial_max(lhs, rhs)
    /\ UNCHANGED <<ty, lhs, rhs>>

PartialMin ==
    /\ op = "new"
    /\ op' = "partial_min"
    /\ out' = partial_min(lhs, rhs)
    /\ UNCHANGED <<ty, lhs, rhs>>

Sort ==
    /\ op = "new"
    /\ op' = "sort"
    /\ out' = sort(lhs, rhs)
    /\ UNCHANGED <<ty, lhs, rhs>>

NextPartial ==
    \/ PartialMax
    \/ PartialMin
    \/ Sort

SpecPartial == InitPartial /\ [][NextPartial]_vars

----------------------------------------------------------------------------
(* rect/mod.rs: ordered on the rects of a scalar that is Ord, and          *)
(* partially_ordered and expand on the rects of a scalar that is only      *)
(* PartialOrd: the integers 0..MaxVal + 1, the twin of 1 and NaN for a     *)
(* Rect2; 0, its twin and NaN for a Rect3.                                 *)

OrdScalars == 0..(MaxVal + 1)
PosetScalars == OrdScalars \cup {Twin(1), NaN}
PosetScalars3 == {0, Twin(0), NaN}

InitOrder ==
    /\ op = "new"
    /\ \/ /\ ty = "Ord"
          /\ lhs \in Rects(2, OrdScalars) \cup Rects(3, 0..MaxCoord3)
       \/ /\ ty = "PartialOrd"
          /\ lhs \in Rects(2, PosetScalars) \cup Rects(3, PosetScalars3)
    /\ rhs = lhs
    /\ out = None

\* ordered needs T: Ord
OrderedOfOrd ==
    /\ op = "new"
    /\ ty = "Ord"
    /\ op' = "ordered"
    /\ out' = ordered(lhs)
    /\ UNCHANGED <<ty, lhs, rhs>>

PartiallyOrderedOfPartialOrd ==
    /\ op = "new"
    /\ ty = "PartialOrd"
    /\ op' = "partially_ordered"
    /\ out' = partially_ordered(lhs)
    /\ UNCHANGED <<ty, lhs, rhs>>

\* expand of a Rect2 by every Rect2 without a NaN (a rect with a NaN is not
\* partially positive)
ExpandOfPartialOrd ==
    /\ op = "new"
    /\ ty = "PartialOrd"
    /\ Dim(lhs.p0) = 2
    /\ \E b \in Rects(2, PosetScalars \ {NaN}) :
          /\ rhs' = b
          /\ out' = expand(lhs, b)
    /\ op' = "expand"
    /\ UNCHANGED <<ty, lhs>>

NextOrder ==
    \/ OrderedOfOrd
    \/ PartiallyOrderedOfPartialOrd
    \/ ExpandOfPartialOrd

SpecOrder == InitOrder /\ [][NextOrder]_vars

----------------------------------------------------------------------------
(* rect/mod.rs: a sequence of expand calls, `acc = acc.expand(b)`, on a    *)
(* totally ordered scalar. lhs is the rect the sequence starts from, rhs   *)
(* the operands expanded so far and out the accumulated rect. The operands *)
(* are Rect2 over 0..2 with point0 at (0, 0) or (1, 1): those that are     *)
(* strictly positive, and those over 0..1 that are not: empty on x, on y   *)
(* or on both, inverted on one axis or on both.                            *)

MaxCalls == 3

ExpandScalars == {0, 1, 2}
ExpandOperands ==
    {r \in Rects(2, ExpandScalars) :
        /\ r.p0.x = r.p0.y
        /\ is_positive(r) \/ r \in Rects(2, {0, 1})}

InitExpandSeq ==
    /\ op = "new"
    /\ ty = "i32"
    /\ lhs \in {r \in ExpandOperands : is_positive(r)}
    /\ rhs = <<>>
    /\ out = lhs

ExpandNext ==
    /\ Len(rhs) < MaxCalls
    /\ \E b \in ExpandOperands :
          /\ rhs' = Append(rhs, b)
          /\ out' = expand(out, b)
    /\ op' = "expand"
    /\ UNCHANGED <<ty, lhs>>

NextExpandSeq == ExpandNext

SpecExpandSeq == InitExpandSeq /\ [][NextExpandSeq]_vars

----------------------------------------------------------------------------
(* rect/mod.rs: try_convert and try_ref_convert; rect/ext_ops.rs:          *)
(* impl_try_unary_ops, impl_try_scalar_ops and impl_try_vec_ops.  Each is  *)
(* `Ok($rect(f(self.0)?, f(self.1)?))`: point0 is evaluated first and `?`  *)
(* returns its error before point1 is evaluated.                           *)

\* `Ok($rect(a?, b?))`, a and b being the results for point0 and point1
both_corners(a, b) ==
    IF is_err(a)
    THEN a
    ELSE IF is_err(b)
         THEN b
         ELSE Ok(Rect(a[2], b[2]))

\* a variant of rect_try_convert that converts point1 before point0
rect_try_convert_point1_first(self) ==
    LET r == both_corners(try_convert(self.p1), try_convert(self.p0))
    IN  IF is_err(r) THEN r ELSE Ok(Rect(r[2].p1, r[2].p0))

rect_try_convert(self) ==
    both_corners(try_convert(self.p0), try_convert(self.p1))

rect_try_ref_convert(self) ==
    both_corners(try_ref_convert(self.p0), try_ref_convert(self.p1))

rect_try_unary(o, self) ==
    both_corners(try_unary(o, self.p0), try_unary(o, self.p1))

rect_try_scalar(o, self, k) ==
    both_corners(try_scalar(o, self.p0, k), try_scalar(o, self.p1, k))

rect_try_vec(o, self, other) ==
    both_corners(try_binary(o, self.p0, other), try_binary(o, self.p1, other))

InitRectTry ==
    /\ op = "new"
    /\ ty = "iN"
    /\ lhs \in Rects(2, EdgeScalars) \cup Rects(3, EdgeScalars3)
    /\ rhs = lhs
    /\ out = None

RectTryConvert ==
    /\ op = "new"
    /\ op' = "try_convert"
    /\ out' = rect_try_convert(lhs)
    /\ UNCHANGED <<ty, lhs, rhs>>

RectTryRefConvert ==
    /\ op = "new"
    /\ op' = "try_ref_convert"
    /\ out' = rect_try_ref_convert(lhs)
    /\ UNCHANGED <<ty, lhs, rhs>>

RectTryUnary ==
    /\ op = "new"
    /\ op' = "try_neg"
    /\ out' = rect_try_unary("try_neg", lhs)
    /\ UNCHANGED <<ty, lhs, rhs>>

RectTryScalar ==
    /\ op = "new"
    /\ \E o \in {"try_div_scalar", "try_mul_scalar"} :
       \E k \in ScalarsOf(lhs) :
          /\ op' = o
          /\ rhs' = k
          /\ out' = rect_try_scalar(o, lhs, k)
    /\ UNCHANGED <<ty, lhs>>

RectTryVec ==
    /\ op = "new"
    /\ \E o \in {"try_add", "try_div", "try_mul", "try_sub"} :
       \E b \in Vectors(Dim(lhs.p0), ScalarsOf(lhs)) :
          /\ op' = o
          /\ rhs' = b
          /\ out' = rect_try_vec(o, lhs, b)
    /\ UNCHANGED <<ty, lhs>>

NextRectTry ==
    \/ RectTryConvert
    \/ RectTryRefConvert
    \/ RectTryUnary
    \/ RectTryScalar
    \/ RectTryVec

SpecRectTry == InitRectTry /\ [][NextRectTry]_vars

----------------------------------------------------------------------------
(* Vocabulary of the properties: the order of the integers, stated without *)
(* the operations above.                                                   *)

Max(a, b) == IF a >= b THEN a ELSE b
Min(a, b) == IF a <= b THEN a ELSE b
Axes(r) == DOMAIN r.p0
StrictlyPositive(r) == \A f \in Axes(r) : r.p0[f] < r.p1[f]
OverlapPositive(a, b) ==
    \A f \in Axes(a) : Max(a.p0[f], b.p0[f]) < Min(a.p1[f], b.p1[f])
\* r contains s: on every axis the interval of s lies within that of r
Contains(r, s) ==
    \A f \in Axes(r) : r.p0[f] <= s.p0[f] /\ s.p1[f] <= r.p1[f]
\* the rects obtained from r by moving one bound of one axis inward by one
Shrunk(r) ==
    {[r EXCEPT !.p0[f] = @ + 1] : f \in Axes(r)}
        \cup {[r EXCEPT !.p1[f] = @ - 1] : f \in Axes(r)}
GeOnEveryAxis(r) ==
    /\ r.p1.x >= r.p0.x
    /\ r.p1.y >= r.p0.y
    /\ (Dim(r.p0) = 3 => r.p1.z >= r.p0.z)
GtOnEveryAxis(r) ==
    /\ r.p1.x > r.p0.x
    /\ r.p1.y > r.p0.y
    /\ (Dim(r.p0) = 3 => r.p1.z > r.p0.z)

----------------------------------------------------------------------------
(* Rect claims, checked under SpecRect *)

\* C1: intersect(a, b) is None when a is not strictly positive, when b is not
\* strictly positive, or when the per-axis overlap is not strictly positive;
\* in every other case it is Some(r) with, on every axis, r.point0 the maximum
\* of the two point0 values and r.point1 the minimum of the two point1 values.
C1_IntersectResult ==
    op = "intersect" =>
        IF StrictlyPositive(lhs) /\ StrictlyPositive(rhs) /\ OverlapPositive(lhs, rhs)
        THEN out = Some(Rect([f \in Axes(lhs) |-> Max(lhs.p0[f], rhs.p0[f])],
                             [f \in Axes(lhs) |-> Min(lhs.p1[f], rhs.p1[f])]))
        ELSE out = None

\* two rects that overlap properly: the result is neither operand
C1_Witness ==
    /\ op = "intersect"
    /\ Len(out) = 1
    /\ unwrap(out) # lhs
    /\ unwrap(out) # rhs

\* C2: overlap is strict: two strictly positive rects that are disjoint or
\* only share a boundary on at least one axis have no intersection.
C2_TouchingIsNone ==
    ( /\ op = "intersect"
      /\ StrictlyPositive(lhs)
      /\ StrictlyPositive(rhs)
      /\ \E f \in Axes(lhs) : lhs.p1[f] <= rhs.p0[f] \/ rhs.p1[f] <= lhs.p0[f] )
    => out = None

\* two strictly positive rects that share exactly a boundary on the x axis and
\* overlap on the others
C2_Witness ==
    /\ op = "intersect"
    /\ StrictlyPositive(lhs)
    /\ StrictlyPositive(rhs)
    /\ lhs.p1.x = rhs.p0.x
    /\ \A f \in Axes(lhs) \ {"x"} : Max(lhs.p0[f], rhs.p0[f]) < Min(lhs.p1[f], rhs.p1[f])
    /\ out = None

\* C3: when both rects are strictly positive, expand returns the smallest rect
\* containing both: point0 is the per-axis minimum of the point0 values, point1
\* the per-axis maximum of the point1 values, the result contains both operands
\* and no rect with a bound moved inward still contains both.
C3_ExpandSmallestCover ==
    (op = "expand" /\ StrictlyPositive(lhs) /\ StrictlyPositive(rhs)) =>
        /\ \A f \in Axes(lhs) :
              /\ out.p0[f] = Min(lhs.p0[f], rhs.p0[f])
              /\ out.p1[f] = Max(lhs.p1[f], rhs.p1[f])
        /\ Contains(out, lhs)
        /\ Contains(out, rhs)
        /\ \A r \in Shrunk(out) : ~(Contains(r, lhs) /\ Contains(r, rhs))

\* two strictly positive rects neither of which contains the other
C3_Witness ==
    /\ op = "expand"
    /\ StrictlyPositive(lhs)
    /\ StrictlyPositive(rhs)
    /\ out # lhs
    /\ out # rhs

\* C4: when self or rhs is not strictly positive on some axis, expand returns
\* exactly self, as a plain rect (no error value), also when it is self that is
\* not positive and rhs is.
C4_ExpandNonPositiveReturnsSelf ==
    (op = "expand" /\ (~StrictlyPositive(lhs) \/ ~StrictlyPositive(rhs))) =>
        out = lhs

\* self is not positive, rhs is, and rhs reaches beyond self on every axis
C4_Witness ==
    /\ op = "expand"
    /\ ~StrictlyPositive(lhs)
    /\ StrictlyPositive(rhs)
    /\ \A f \in Axes(lhs) : rhs.p0[f] < Min(lhs.p0[f], lhs.p1[f])
    /\ out = lhs

\* C5: for every strictly positive rect R, R.expand(R) = R.
C5_ExpandSelf ==
    (op = "expand" /\ rhs = lhs /\ StrictlyPositive(lhs)) => out = lhs

\* a strictly positive rect expanded by itself
C5_Witness ==
    /\ op = "expand"
    /\ rhs = lhs
    /\ StrictlyPositive(lhs)
    /\ lhs.p0.x # lhs.p0.y

\* C6: ordered and partially_ordered sort each axis pair ascending on its own:
\* on every axis the result's point0 is the smaller and point1 the larger of the
\* two input values of that axis, and an ascending axis is left as it is.
C6_OrderedPerAxis ==
    op \in {"ordered", "partially_ordered"} =>
        \A f \in Axes(lhs) :
            /\ out.p0[f] = Min(lhs.p0[f], lhs.p1[f])
            /\ out.p1[f] = Max(lhs.p0[f], lhs.p1[f])
            /\ (lhs.p0[f] <= lhs.p1[f] =>
                    out.p0[f] = lhs.p0[f] /\ out.p1[f] = lhs.p1[f])

\* a rect descending on x and strictly ascending on y: a swap of the two
\* corners would not sort it
C6_Witness ==
    /\ op = "ordered"
    /\ lhs.p0.x > lhs.p1.x
    /\ lhs.p0.y < lhs.p1.y
    /\ out.p0.y = lhs.p0.y
    /\ out.p0.x = lhs.p1.x

\* C7: is_ordered and is_partially_ordered are true iff point1 >= point0 on
\* every axis; is_positive and is_partially_positive are true iff point1 >
\* point0 on every axis.
C7_OrderedPositivePredicates ==
    /\ op \in {"is_ordered", "is_partially_ordered"} => out = GeOnEveryAxis(lhs)
    /\ op \in {"is_positive", "is_partially_positive"} => out = GtOnEveryAxis(lhs)

\* a rect with point1 = point0 on one axis and point1 > point0 on another is
\* ordered but not positive
C7_Witness ==
    /\ op = "is_positive"
    /\ out = FALSE
    /\ is_ordered(lhs)
    /\ \E f \in Axes(lhs) : lhs.p1[f] = lhs.p0[f]
    /\ \E f \in Axes(lhs) : lhs.p1[f] > lhs.p0[f]

----------------------------------------------------------------------------
(* Vector claims, checked under SpecVec and SpecDot *)

\* the fields of v added (multiplied) from the last to the first
SumFromTheRight(t, v) ==
    CASE Dim(v) = 2 -> add(t, v.x, v.y)
      [] Dim(v) = 3 -> add(t, v.x, add(t, v.y, v.z))
      [] Dim(v) = 4 -> add(t, v.x, add(t, v.y, add(t, v.z, v.w)))
\* the fields of v added in pairs
SumInPairs(t, v) ==
    CASE Dim(v) = 2 -> add(t, v.x, v.y)
      [] Dim(v) = 3 -> add(t, v.x, add(t, v.y, v.z))
      [] Dim(v) = 4 -> add(t, add(t, v.x, v.y), add(t, v.z, v.w))

\* C8: sum and product fold the fields strictly left to right: for Vector4
\* sum() = ((x + y) + z) + w and product() = ((x * y) * z) * w, with the 2- and
\* 3-field prefixes for Vector2 and Vector3, for every scalar operation, a
\* non-associative one such as saturating arithmetic included.
C8_FoldLeftToRight ==
    /\ op = "sum" =>
          out = CASE Dim(lhs) = 2 -> add(ty, lhs.x, lhs.y)
                  [] Dim(lhs) = 3 -> add(ty, add(ty, lhs.x, lhs.y), lhs.z)
                  [] Dim(lhs) = 4 -> add(ty, add(ty, add(ty, lhs.x, lhs.y), lhs.z), lhs.w)
    /\ op = "product" =>
          out = CASE Dim(lhs) = 2 -> mul(ty, lhs.x, lhs.y)
                  [] Dim(lhs) = 3 -> mul(ty, mul(ty, lhs.x, lhs.y), lhs.z)
                  [] Dim(lhs) = 4 -> mul(ty, mul(ty, mul(ty, lhs.x, lhs.y), lhs.z), lhs.w)

\* a Vector4 of a saturating scalar whose sum depends on the order of the
\* additions: neither the right-to-left nor the pairwise sum equals it
C8_Witness ==
    /\ op = "sum"
    /\ ty = "saturating"
    /\ Dim(lhs) = 4
    /\ out # SumFromTheRight(ty, lhs)
    /\ out # SumInPairs(ty, lhs)

\* C9: a vector converted to an array or a tuple of the same length and back
\* equals the original, for dimensions 2, 3 and 4; and the positions of the
\* array or tuple are x, y, z, w in that order.
C9_ArrayTupleRoundTrip ==
    /\ op \in {"from_array", "vector_from_array", "from_tuple"} => out = lhs
    /\ op \in {"into_array", "into_tuple"} =>
          /\ Len(out) = Dim(lhs)
          /\ out[1] = lhs.x
          /\ out[2] = lhs.y
          /\ (Dim(lhs) >= 3 => out[3] = lhs.z)
          /\ (Dim(lhs) = 4 => out[4] = lhs.w)
          /\ out[Len(out)] = lhs[FieldOrder[Dim(lhs)]]

\* a Vector4 with four different fields, back from an array
C9_Witness ==
    /\ op = "from_array"
    /\ Dim(lhs) = 4
    /\ Cardinality({lhs.x, lhs.y, lhs.z, lhs.w}) = 4
    /\ out = lhs

\* C10: dot(a, b) is sum() of the field-wise product a * b: for Vector4
\* ((a.x*b.x + a.y*b.y) + a.z*b.z) + a.w*b.w added left to right, with the 2-
\* and 3-field forms for Vector2 and Vector3; a field of a only ever meets the
\* same field of b.
C10_DotIsSumOfProducts ==
    op = "dot" =>
        out = CASE Dim(lhs) = 2 ->
                       add(ty, mul(ty, lhs.x, rhs.x), mul(ty, lhs.y, rhs.y))
                [] Dim(lhs) = 3 ->
                       add(ty, add(ty, mul(ty, lhs.x, rhs.x), mul(ty, lhs.y, rhs.y)),
                               mul(ty, lhs.z, rhs.z))
                [] Dim(lhs) = 4 ->
                       add(ty, add(ty, add(ty, mul(ty, lhs.x, rhs.x), mul(ty, lhs.y, rhs.y)),
                                       mul(ty, lhs.z, rhs.z)),
                               mul(ty, lhs.w, rhs.w))

\* a dot product of two Vector4 of a saturating scalar that depends on the
\* order of the additions, with rhs.x different from the other fields of rhs
C10_Witness ==
    /\ op = "dot"
    /\ ty = "saturating"
    /\ Dim(lhs) = 4
    /\ rhs.x \notin {rhs.y, rhs.z, rhs.w}
    /\ out # SumFromTheRight(ty, [f \in DOMAIN lhs |-> mul(ty, lhs[f], rhs[f])])

----------------------------------------------------------------------------
(* C11: the dot product is commutative.  For two vectors a and b of the    *)
(* same dimension (2, 3 or 4) over a scalar whose multiplication is        *)
(* commutative, dot(a, b) equals dot(b, a).  Both scalar types of the      *)
(* model multiply commutatively; "i32" is the integer without overflow.    *)
C11_DotCommutes ==
    op = "dot" => out = dot(ty, rhs, lhs)

\* a non-zero dot product of two different Vector4 of integers
C11_Witness ==
    /\ op = "dot"
    /\ ty = "i32"
    /\ Dim(lhs) = 4
    /\ lhs # rhs
    /\ lhs.x # rhs.x
    /\ out # 0

----------------------------------------------------------------------------
(* C12: the cross product of two Vector3 of integers (no overflow) is      *)
(* (a.y*b.z - a.z*b.y, a.z*b.x - a.x*b.z, a.x*b.y - a.y*b.x), and it is    *)
(* anticommutative: cross(a, b) is the negation of cross(b, a).            *)
C12_CrossAnticommutes ==
    (op = "cross" /\ ty = "i32") =>
        /\ out.x = lhs.y * rhs.z - lhs.z * rhs.y
        /\ out.y = lhs.z * rhs.x - lhs.x * rhs.z
        /\ out.z = lhs.x * rhs.y - lhs.y * rhs.x
        /\ out = vec_neg(ty, cross(ty, rhs, lhs))

\* a cross product of integers with three non-zero fields
C12_Witness ==
    /\ op = "cross"
    /\ ty = "i32"
    /\ out.x # 0
    /\ out.y # 0
    /\ out.z # 0

----------------------------------------------------------------------------
(* C13: over the integers (no overflow) the cross product of a and b is    *)
(* orthogonal to a and to b: dot(a, cross(a, b)) and dot(b, cross(a, b))   *)
(* are both zero.                                                          *)
C13_CrossOrthogonal ==
    (op = "cross" /\ ty = "i32") =>
        /\ dot(ty, lhs, out) = 0
        /\ dot(ty, rhs, out) = 0

\* a non-zero cross product of two vectors without a zero field
C13_Witness ==
    /\ op = "cross"
    /\ ty = "i32"
    /\ \A f \in DOMAIN lhs : lhs[f] # 0 /\ rhs[f] # 0
    /\ \E f \in DOMAIN out : out[f] # 0

----------------------------------------------------------------------------
(* C14: try_convert and try_ref_convert succeed exactly when the scalar    *)
(* conversion of every field succeeds, and then return the vector of the   *)
(* converted fields; otherwise they return exactly the error of the first  *)
(* field, in the order x, y, z, w, whose conversion fails: never a partly  *)
(* converted vector, never the error of a later field.                     *)
C14_FirstFailingField ==
    op \in {"try_convert", "try_ref_convert"} =>
        IF \A f \in DOMAIN lhs : is_ok(try_into(lhs[f]))
        THEN out = Ok([f \in DOMAIN lhs |-> try_into(lhs[f])[2]])
        ELSE out = CASE is_err(try_into(lhs.x)) -> try_into(lhs.x)
                     [] is_ok(try_into(lhs.x)) /\ is_err(try_into(lhs.y)) ->
                            try_into(lhs.y)
                     [] is_ok(try_into(lhs.x)) /\ is_ok(try_into(lhs.y))
                           /\ is_err(try_into(lhs.z)) -> try_into(lhs.z)
                     [] OTHER -> try_into(lhs.w)

\* a conversion of a Vector4 that fails in y and, with another scalar, in w
C14_Witness ==
    /\ op = "try_convert"
    /\ Dim(lhs) = 4
    /\ is_ok(try_into(lhs.x))
    /\ is_err(try_into(lhs.y))
    /\ is_err(try_into(lhs.w))
    /\ lhs.y # lhs.w
    /\ is_err(out)

\* f is the one field of v whose scalar conversion fails
OnlyFailing(v, f) ==
    /\ is_err(try_into(v[f]))
    /\ \A g \in DOMAIN v \ {f} : is_ok(try_into(v[g]))

\* v with the scalars of its fields f and g exchanged
Exchanged(v, f, g) == [v EXCEPT ![f] = v[g], ![g] = v[f]]

----------------------------------------------------------------------------
(* C15, as the specification states it: the error of a failed conversion   *)
(* describes which field failed, so the conversion of a vector whose only  *)
(* unrepresentable field is f and the conversion of the vector that holds  *)
(* the same offending scalar in another field g instead return errors      *)
(* that differ.                                                            *)
C15_ErrorNamesField ==
    op \in {"try_convert", "try_ref_convert"} =>
        \A f, g \in DOMAIN lhs :
            (f # g /\ OnlyFailing(lhs, f)) =>
                try_convert(Exchanged(lhs, f, g)) # out

(* C15, amended: the error of a failed conversion is the error of the      *)
(* scalar conversion of the first failing field and nothing more; it does  *)
(* not name the field, so the two conversions above return the same error. *)
C15_ErrorIsScalarError ==
    op \in {"try_convert", "try_ref_convert"} =>
        \A f, g \in DOMAIN lhs :
            (f # g /\ OnlyFailing(lhs, f)) =>
                /\ out = try_into(lhs[f])
                /\ try_convert(Exchanged(lhs, f, g)) = out

\* a failed conversion of a Vector4 whose only unrepresentable field is x
C15_Witness ==
    /\ op = "try_convert"
    /\ Dim(lhs) = 4
    /\ OnlyFailing(lhs, "x")
    /\ is_err(out)
    /\ is_err(try_convert(Exchanged(lhs, "x", "y")))

----------------------------------------------------------------------------
\* the operations of the traits TryNeg, TryDiv, TryMul, TryAdd and TrySub
TryOps ==
    {"try_neg", "try_div_scalar", "try_mul_scalar",
     "try_add", "try_div", "try_mul", "try_sub"}

\* the operations of the traits CheckedNeg, CheckedAdd, .., CheckedSub
CheckedOps ==
    {"checked_neg", "checked_add", "checked_div", "checked_mul", "checked_sub"}

\* the operations whose right operand is a scalar
ScalarForms ==
    {"div_scalar", "mul_scalar", "try_div_scalar", "try_mul_scalar",
     "saturating_mul_scalar", "wrapping_mul_scalar"}

\* the right operand that field f of lhs meets: the scalar rhs in the
\* vector-scalar form, field f of rhs otherwise
Operand(f) == IF op \in ScalarForms THEN rhs ELSE rhs[f]

\* the result of the scalar Try operation on field f
TryOf(f) == scalar_try(op, lhs[f], Operand(f))

(* C16: a checked vector operation (try_add, try_sub, try_mul, try_div,    *)
(* try_neg, with a vector or a scalar as right operand) returns Ok of the  *)
(* field-wise results exactly when the scalar operation succeeds on every  *)
(* field; otherwise it returns the error of the first field, in the order  *)
(* x, y, z, w, that fails, and no partial vector.  The checked_*           *)
(* operations of num_traits return Some of the field-wise results on the   *)
(* same condition and None otherwise.                                      *)
C16_CheckedFirstFailure ==
    /\ op \in TryOps =>
          IF \A f \in DOMAIN lhs : is_ok(TryOf(f))
          THEN out = Ok([f \in DOMAIN lhs |-> TryOf(f)[2]])
          ELSE out = CASE is_err(TryOf("x")) -> TryOf("x")
                       [] is_ok(TryOf("x")) /\ is_err(TryOf("y")) -> TryOf("y")
                       [] is_ok(TryOf("x")) /\ is_ok(TryOf("y"))
                             /\ is_err(TryOf("z")) -> TryOf("z")
                       [] OTHER -> TryOf("w")
    /\ op \in CheckedOps =>
          IF \A f \in DOMAIN lhs : scalar_checked(op, lhs[f], rhs[f]) # None
          THEN out = Some([f \in DOMAIN lhs |->
                              unwrap(scalar_checked(op, lhs[f], rhs[f]))])
          ELSE out = None

\* a try_add of two Vector4 whose x succeeds and whose y and w fail with
\* different errors
C16_Witness ==
    /\ op = "try_add"
    /\ Dim(lhs) = 4
    /\ is_ok(TryOf("x"))
    /\ is_err(TryOf("y"))
    /\ is_err(TryOf("w"))
    /\ TryOf("y") # TryOf("w")
    /\ is_err(out)

----------------------------------------------------------------------------
\* the exact result, over the integers, of the operation on field f
ExactOf(f) == exact(op, lhs[f], Operand(f))

InRange(n) == MinS <= n /\ n <= MaxS

\* the result of the unchecked operator (-, * by a scalar, +, *, -) on the
\* operands, with exact arithmetic
Unchecked ==
    CASE op \in {"saturating_neg", "wrapping_neg"} -> vec_neg("i32", lhs)
      [] op \in {"saturating_mul_scalar", "wrapping_mul_scalar"} ->
             vec_mul_scalar("i32", lhs, rhs)
      [] op \in {"saturating_add", "wrapping_add"} -> vec_add("i32", lhs, rhs)
      [] op \in {"saturating_mul", "wrapping_mul"} -> vec_mul("i32", lhs, rhs)
      [] op \in {"saturating_sub", "wrapping_sub"} -> vec_sub("i32", lhs, rhs)

(* C17: for the integer of IntBits bits, a saturating or wrapping vector   *)
(* operation (add, sub, mul, neg) whose exact field results all lie in     *)
(* MinS..MaxS returns the vector of the unchecked operator; a field whose  *)
(* exact result is out of range holds that result modulo 2^IntBits after a *)
(* wrapping operation and the nearest bound of the range after a           *)
(* saturating operation.                                                   *)
C17_SatWrapValues ==
    op \in SaturatingOps \cup WrappingOps =>
        /\ (\A f \in DOMAIN lhs : InRange(ExactOf(f))) => out = Unchecked
        /\ \A f \in DOMAIN lhs :
              IF InRange(ExactOf(f))
              THEN out[f] = ExactOf(f)
              ELSE IF op \in WrappingOps
                   THEN /\ InRange(out[f])
                        /\ (out[f] - ExactOf(f)) % Pow2(IntBits) = 0
                   ELSE out[f] = (IF ExactOf(f) > MaxS THEN MaxS ELSE MinS)

\* a wrapping_add of two Vector4 that wraps in y and stays in range, and
\* non-zero, in x
C17_Witness ==
    /\ op = "wrapping_add"
    /\ Dim(lhs) = 4
    /\ ~InRange(ExactOf("y"))
    /\ InRange(ExactOf("x"))
    /\ out.x # 0
    /\ out.y # MaxS
    /\ out.y # MinS

\* the operation of the state applied to other operands
Apply(l, r) ==
    CASE op \in {"saturating_neg", "wrapping_neg"} -> ext_unary(op, l)
      [] op \in {"saturating_mul_scalar", "wrapping_mul_scalar"} ->
             ext_scalar(op, l, r)
      [] OTHER -> ext_binary(op, l, r)

(* C18: a saturating or wrapping vector operation returns a vector of the  *)
(* dimension of its operands, never an error; field f of the result is the *)
(* scalar operation on field f of the operands, and putting another scalar *)
(* in a field g of the left operand changes no field of the result other   *)
(* than g.                                                                 *)
C18_SatWrapFieldwise ==
    op \in SaturatingOps \cup WrappingOps =>
        /\ DOMAIN out = DOMAIN lhs
        /\ out.x = scalar_ext(op, lhs.x, Operand("x"))
        /\ out.y = scalar_ext(op, lhs.y, Operand("y"))
        /\ Dim(lhs) >= 3 => out.z = scalar_ext(op, lhs.z, Operand("z"))
        /\ Dim(lhs) >= 4 => out.w = scalar_ext(op, lhs.w, Operand("w"))
        /\ \A g \in DOMAIN lhs : \A v \in {MinS, 0} :
              \A f \in DOMAIN lhs \ {g} :
                  Apply([lhs EXCEPT ![g] = v], rhs)[f] = out[f]

\* a saturating_mul of two Vector3 that saturates in x and is in range, and
\* different from the result of x, in y and in z
C18_Witness ==
    /\ op = "saturating_mul"
    /\ Dim(lhs) = 3
    /\ ~InRange(ExactOf("x"))
    /\ InRange(ExactOf("y"))
    /\ InRange(ExactOf("z"))
    /\ out.y # out.x
    /\ out.z # out.x

----------------------------------------------------------------------------
\* the operators of a rect: those of core::ops and the saturating and
\* wrapping ones
RectOperators ==
    {"neg", "div_scalar", "mul_scalar", "add", "div", "mul", "sub"}
        \cup SaturatingOps \cup WrappingOps

UnaryOperators == {"neg", "saturating_neg", "wrapping_neg"}

\* the vector operation `point op k` that the operator of the state names
CornerOp(point) ==
    CASE op = "neg" -> vec_neg("i32", point)
      [] op = "div_scalar" -> vec_div_scalar("i32", point, rhs)
      [] op = "mul_scalar" -> vec_mul_scalar("i32", point, rhs)
      [] op = "add" -> vec_add("i32", point, rhs)
      [] op = "div" -> vec_div("i32", point, rhs)
      [] op = "mul" -> vec_mul("i32", point, rhs)
      [] op = "sub" -> vec_sub("i32", point, rhs)
      [] op \in {"saturating_neg", "wrapping_neg"} -> ext_unary(op, point)
      [] op \in {"saturating_mul_scalar", "wrapping_mul_scalar"} ->
             ext_scalar(op, point, rhs)
      [] OTHER -> ext_binary(op, point, rhs)

\* the scalar operation of the operator on a scalar a of a corner and the
\* scalar k that a meets in the operand
ScalarOp(a, k) ==
    IF op \in SaturatingOps \cup WrappingOps
    THEN scalar_ext(op, a, k)
    ELSE exact(op, a, k)

\* the scalar of the operand that field f of a corner meets
OperandOfRect(f) ==
    IF op \in UnaryOperators THEN 0 ELSE IF op \in ScalarForms THEN rhs ELSE rhs[f]

(* C19: every operator of a rect applies the same operand k to each corner *)
(* on its own: r op k is Rect(r.point0 op k, r.point1 op k) for +, -, *,   *)
(* /, neg and their saturating and wrapping variants, k a scalar or a      *)
(* vector; field f of a corner of the result is computed from field f of   *)
(* the same corner of r and of k, never from the other corner.             *)
C19_RectOperatorPerCorner ==
    op \in RectOperators =>
        /\ out = Rect(CornerOp(lhs.p0), CornerOp(lhs.p1))
        /\ \A f \in DOMAIN lhs.p0 :
              /\ out.p0[f] = ScalarOp(lhs.p0[f], OperandOfRect(f))
              /\ out.p1[f] = ScalarOp(lhs.p1[f], OperandOfRect(f))

\* a Rect2 with different corners minus a vector, with different corners in
\* the result
C19_Witness ==
    /\ op = "sub"
    /\ Dim(lhs.p0) = 2
    /\ lhs.p0.x # lhs.p1.x
    /\ lhs.p0.y # lhs.p1.y
    /\ rhs.x # rhs.y
    /\ out.p0 # out.p1
    /\ out # lhs

----------------------------------------------------------------------------
(* C20: width(), height() and depth() return point1.x - point0.x,          *)
(* point1.y - point0.y and point1.z - point0.z, and size() the vector of   *)
(* these differences on every axis (point1 - point0, negative on an axis   *)
(* where the rect is not ordered); the four calls leave the rect as it is. *)
C20_SizeIsPoint1MinusPoint0 ==
    [][op' \in {"width", "height", "depth", "size"} =>
          /\ lhs' = lhs
          /\ op' = "width" => out' = lhs.p1.x - lhs.p0.x
          /\ op' = "height" => out' = lhs.p1.y - lhs.p0.y
          /\ op' = "depth" => out' = lhs.p1.z - lhs.p0.z
          /\ op' = "size" =>
                out' = [f \in DOMAIN lhs.p0 |-> lhs.p1[f] - lhs.p0[f]]]_vars

\* the size of a Rect3 that is not ordered on the x axis: negative on x,
\* positive on z
C20_Witness ==
    /\ op = "size"
    /\ Dim(lhs.p0) = 3
    /\ lhs.p1.x < lhs.p0.x
    /\ out.x < 0
    /\ out.z > 0

----------------------------------------------------------------------------
\* the scalar that field f of the left operand meets in the call op' made
\* on the operands lhs and rhs: the scalar operand itself, or field f of the
\* vector operand
Met(f) == IF op'.form = "scalar" THEN rhs' ELSE rhs[f]

(* C21, as the specification states it: each of +, -, * and / accepts a    *)
(* scalar operand as well as a vector operand, and field f of v op k is    *)
(* v.f op k (k.f for a vector k).                                          *)
C21_BroadcastForEveryOperator ==
    [][op'.operator \in ArithmeticOperators =>
          /\ op'.impl
          /\ \A f \in DOMAIN lhs :
                out'[f] = exact(op'.operator, lhs[f], Met(f))]_vars

(* C21, amended: each of +, -, * and / accepts a vector operand; only *    *)
(* and / accept a scalar operand, + and - have no vector-scalar impl and   *)
(* such a call is rejected, the operands untouched.  Where the impl        *)
(* exists, field f of v op k is v.f op k (k.f for a vector k).             *)
C21_BroadcastForMulDiv ==
    [][op'.operator \in ArithmeticOperators =>
          /\ op'.impl <=> (op'.form = "vector" \/ op'.operator \in {"mul", "div"})
          /\ op'.impl =>
                \A f \in DOMAIN lhs :
                    out'[f] = exact(op'.operator, lhs[f], Met(f))
          /\ ~op'.impl => (out' = None /\ lhs' = lhs)]_vars

\* a Vector4 with different x and y multiplied by the scalar MaxVal + 1
C21_Witness ==
    /\ op.operator = "mul"
    /\ op.form = "scalar"
    /\ op.shape = "ref_owned"
    /\ op.impl
    /\ Dim(lhs) = 4
    /\ rhs = MaxVal + 1
    /\ out.x # out.y
    /\ out.w # 0

----------------------------------------------------------------------------
\* the operator that an assignment operator assigns the result of
BaseOf(o) ==
    CASE o = "add_assign" -> "add"
      [] o = "div_assign" -> "div"
      [] o = "mul_assign" -> "mul"
      [] o = "sub_assign" -> "sub"

(* C24: an assignment operator changes the receiver in place and agrees    *)
(* with the operator it assigns: after `a op= b` (+, -, *, / with a vector *)
(* operand, * and / with a scalar operand) a is what `a op b` returns for  *)
(* the old a, each field of a being a.f op b.f computed once from the old  *)
(* a.f; nothing is returned, and an operand b passed by reference is       *)
(* unchanged.                                                              *)
C24_AssignAgreesWithOperator ==
    [][op'.operator \in scalar_assign_impls \cup binary_assign_impls =>
          /\ \A f \in DOMAIN lhs :
                lhs'[f] = exact(BaseOf(op'.operator), lhs[f], Met(f))
          /\ lhs' = IF op'.form = "scalar"
                    THEN scalar_owned_owned(BaseOf(op'.operator), ty, lhs, rhs')
                    ELSE binary_owned_owned(BaseOf(op'.operator), ty, lhs, rhs)
          /\ out' = out
          /\ (op'.form = "vector" /\ op'.shape = "ref") => rhs' = rhs]_vars

\* a Vector4 after `a -= &b` for a vector b whose x and w differ and are
\* not zero
C24_Witness ==
    /\ op.operator = "sub_assign"
    /\ op.form = "vector"
    /\ op.shape = "ref"
    /\ Dim(lhs) = 4
    /\ rhs.x # rhs.w
    /\ rhs.x # 0
    /\ rhs.w # 0
    /\ lhs.w # lhs.x

----------------------------------------------------------------------------
(* C25: the four ownership shapes of a binary vector operator (operands    *)
(* by value or by reference, a vector or a scalar on the right) return the *)
(* same result for the same operand values, and an operand passed by       *)
(* reference is unchanged after the call.                                  *)
C25_ShapesAgree ==
    [][(op'.operator \in ArithmeticOperators /\ op'.impl) =>
          /\ \A s \in Shapes :
                out' = IF op'.form = "scalar"
                       THEN scalar_op(s, op'.operator, ty, lhs, rhs')
                       ELSE binary_op(s, op'.operator, ty, lhs, rhs)
          /\ op'.shape \in {"ref_owned", "ref_ref"} => lhs' = lhs
          /\ (op'.form = "vector" /\ op'.shape \in {"owned_ref", "ref_ref"}) =>
                rhs' = rhs]_vars

\* `&a - &b` for two Vector4 whose difference depends on the order of the
\* operands
C25_Witness ==
    /\ op.operator = "sub"
    /\ op.form = "vector"
    /\ op.shape = "ref_ref"
    /\ Dim(lhs) = 4
    /\ out # binary_owned_owned("sub", ty, rhs, lhs)
    /\ out.x # out.w

----------------------------------------------------------------------------
\* a and b are comparable and neither is greater: a == b
EqualScalars(a, b) == comparable(a, b) /\ Key(a) = Key(b)

(* C23: on incomparable or equal arguments partial_max(a, b) returns the   *)
(* second argument b and partial_min(a, b) the first argument a; on        *)
(* comparable, different arguments they return the greater and the smaller *)
(* one.                                                                    *)
C23_PartialMaxMinTies ==
    /\ op = "partial_max" =>
          IF ~comparable(lhs, rhs) \/ EqualScalars(lhs, rhs)
          THEN out = rhs
          ELSE out = (IF Key(lhs) > Key(rhs) THEN lhs ELSE rhs)
    /\ op = "partial_min" =>
          IF ~comparable(lhs, rhs) \/ EqualScalars(lhs, rhs)
          THEN out = lhs
          ELSE out = (IF Key(lhs) < Key(rhs) THEN lhs ELSE rhs)

\* partial_max of an integer and its twin, which are incomparable
C23_Witness ==
    /\ op = "partial_max"
    /\ lhs \in 0..MaxVal
    /\ rhs = Twin(lhs)
    /\ out = rhs

----------------------------------------------------------------------------
(* C22, as the specification states it: in expand over a partially ordered *)
(* scalar, when the two values compared on an axis are incomparable the    *)
(* result takes the value of the left operand (self) for that field, for   *)
(* the fields of point0 and for the fields of point1 alike.                *)
C22_ExpandKeepsLeftOnIncomparable ==
    (op = "expand" /\ is_partially_positive(lhs) /\ is_partially_positive(rhs)) =>
        \A f \in DOMAIN lhs.p0 :
            /\ ~comparable(lhs.p0[f], rhs.p0[f]) => out.p0[f] = lhs.p0[f]
            /\ ~comparable(lhs.p1[f], rhs.p1[f]) => out.p1[f] = lhs.p1[f]

(* C22, amended: when the two values compared on an axis are incomparable, *)
(* expand takes the value of the left operand (self) for a field of point0 *)
(* and the value of the right operand for a field of point1.               *)
C22_ExpandOnIncomparable ==
    (op = "expand" /\ is_partially_positive(lhs) /\ is_partially_positive(rhs)) =>
        \A f \in DOMAIN lhs.p0 :
            /\ ~comparable(lhs.p0[f], rhs.p0[f]) => out.p0[f] = lhs.p0[f]
            /\ ~comparable(lhs.p1[f], rhs.p1[f]) => out.p1[f] = rhs.p1[f]

\* an expand of two partially positive rects whose point1 are incomparable
\* on x and whose point0 are incomparable on y
C22_Witness ==
    /\ op = "expand"
    /\ is_partially_positive(lhs)
    /\ is_partially_positive(rhs)
    /\ ~comparable(lhs.p1.x, rhs.p1.x)
    /\ ~comparable(lhs.p0.y, rhs.p0.y)
    /\ out.p1.x = rhs.p1.x
    /\ out.p0.y = lhs.p0.y

----------------------------------------------------------------------------
(* C29: over a totally ordered scalar the result of ordered() is ordered,  *)
(* ordering it again changes nothing, and ordered() returns an ordered     *)
(* rect as it is; over a partially ordered scalar partially_ordered()      *)
(* leaves the two values of an axis where they are when they are           *)
(* incomparable (so that its result may fail is_partially_ordered(), which *)
(* C29_Witness shows).                                                     *)
C29_OrderedAndPartiallyOrdered ==
    /\ (op = "ordered" /\ ty = "Ord") =>
          /\ is_ordered(out)
          /\ ordered(out) = out
          /\ is_ordered(lhs) => out = lhs
    /\ (op = "partially_ordered" /\ ty = "PartialOrd") =>
          \A f \in DOMAIN lhs.p0 :
              ~comparable(lhs.p0[f], lhs.p1[f]) =>
                  /\ out.p0[f] = lhs.p0[f]
                  /\ out.p1[f] = lhs.p1[f]

\* a partially_ordered() that exchanged the values of y, left the incomparable
\* values of x alone and whose result is not partially ordered
C29_Witness ==
    /\ op = "partially_ordered"
    /\ ty = "PartialOrd"
    /\ ~comparable(lhs.p0.x, lhs.p1.x)
    /\ out.p0.x = lhs.p0.x
    /\ gt(lhs.p0.y, lhs.p1.y)
    /\ out.p0.y = lhs.p1.y
    /\ ~is_partially_ordered(out)

\* an ordered() of a rect that is not ordered, over a totally ordered scalar
C29_WitnessOrd ==
    /\ op = "ordered"
    /\ ty = "Ord"
    /\ ~is_ordered(lhs)
    /\ is_ordered(out)

----------------------------------------------------------------------------
\* the first n fields of a vector of self's type, in declaration order
FirstFields(self, n) == SubSeq(FieldSeq(Dim(self)), 1, n)

\* the iterator after i calls of next
RECURSIVE Advanced(_, _)
Advanced(iter, i) == IF i = 0 THEN iter ELSE Advanced(next(iter)[2], i - 1)

(* C26: the library's own unwrap calls never meet a None. In sum() and in  *)
(* product() the accumulator is Some once the first field is folded, and   *)
(* stays Some after every further field, and a vector has at least two     *)
(* fields; in From<[T; N]> each of the N calls of next() yields an item    *)
(* and the iterator is exhausted after them. So none of the three          *)
(* operations panics.                                                      *)
C26_UnwrapNeverFails ==
    /\ op = "sum" =>
          /\ Dim(lhs) >= 2
          /\ \A n \in 1..Dim(lhs) :
                sum_fold(ty, lhs, FirstFields(lhs, n), None) # None
    /\ op = "product" =>
          /\ Dim(lhs) >= 2
          /\ \A n \in 1..Dim(lhs) :
                product_fold(ty, lhs, FirstFields(lhs, n), None) # None
    /\ op = "from_array" =>
          LET a == into_array(lhs)
          IN  /\ Len(a) = Dim(lhs)
              /\ \A i \in 1..Dim(lhs) :
                    next(Advanced(into_iter(a), i - 1))[1] # None
              /\ next(Advanced(into_iter(a), Dim(lhs)))[1] = None
              /\ DOMAIN out = DOMAIN lhs

\* a sum of the smallest vector: the accumulator holds x after the first
\* field and the result is x + y
C26_Witness ==
    /\ op = "sum"
    /\ Dim(lhs) = 2
    /\ sum_fold(ty, lhs, FirstFields(lhs, 1), None) = Some(lhs.x)
    /\ out = add(ty, lhs.x, lhs.y)

\* a vector of four fields made from an array of four items
C26_WitnessFromArray ==
    /\ op = "from_array"
    /\ Dim(lhs) = 4
    /\ out.w = into_array(lhs)[4]

----------------------------------------------------------------------------
(* C27: over a totally ordered scalar, a.intersect(b) equals               *)
(* b.intersect(a) for all rects a and b, both being None when a or b is    *)
(* not strictly positive, and R.intersect(R) is Some(R) for every strictly *)
(* positive R.                                                             *)
C27_IntersectCommutativeIdempotent ==
    op = "intersect" =>
        /\ out = intersect(rhs, lhs)
        /\ (~is_positive(lhs) \/ ~is_positive(rhs)) =>
              (out = None /\ intersect(rhs, lhs) = None)
        /\ (rhs = lhs /\ is_positive(lhs)) => out = Some(lhs)

\* two different rects that intersect, in either order
C27_Witness ==
    /\ op = "intersect"
    /\ lhs # rhs
    /\ out # None
    /\ intersect(rhs, lhs) = out
    /\ unwrap(out) # lhs
    /\ unwrap(out) # rhs

\* a strictly positive rect intersected with itself
C27_WitnessSelf ==
    /\ op = "intersect"
    /\ lhs = rhs
    /\ is_positive(lhs)
    /\ out = Some(lhs)

----------------------------------------------------------------------------
\* acc expanded by the operands of the sequence bs, from the first to the last
RECURSIVE ExpandAll(_, _)
ExpandAll(acc, bs) ==
    IF bs = <<>> THEN acc ELSE ExpandAll(expand(acc, Head(bs)), Tail(bs))

\* the orders in which n operands can be taken
Orders(n) == Permutations(1..n)

\* what holds of the accumulated rect after any number of expand calls
C28_Accumulated ==
    /\ is_positive(out)
    /\ \A i \in 1..Len(rhs) : is_positive(rhs[i]) => Contains(out, rhs[i])
    /\ (\A i \in 1..Len(rhs) : is_positive(rhs[i])) =>
          \A p \in Orders(Len(rhs)) :
              ExpandAll(lhs, [i \in 1..Len(rhs) |-> rhs[p[i]]]) = out

\* what holds of every expand call of the sequence
C28_Call ==
    LET b == rhs'[Len(rhs')]
    IN  /\ Contains(out', out)
        /\ ~is_positive(b) => out' = out

(* C28: starting from a strictly positive rect and expanding it by any     *)
(* sequence of operands, over a totally ordered scalar, the accumulated    *)
(* rect stays strictly positive and contains every strictly positive       *)
(* operand expanded so far; no call shrinks it on any axis and a call with *)
(* an operand that is not strictly positive leaves it unchanged; when all  *)
(* operands are strictly positive, expanding them in any other order gives *)
(* the same rect.                                                          *)
C28_ExpandSequence == [](C28_Accumulated) /\ [][C28_Call]_vars

\* three different strictly positive operands, whose union is none of them
\* nor the rect the sequence started from
C28_Witness ==
    /\ op = "expand"
    /\ Len(rhs) >= 3
    /\ \A i \in 1..3 : is_positive(rhs[i]) /\ rhs[i] # out /\ rhs[i] # lhs
    /\ rhs[1] # rhs[2] /\ rhs[2] # rhs[3] /\ rhs[1] # rhs[3]
    /\ out # lhs
    /\ out = ExpandAll(lhs, <<rhs[3], rhs[1], rhs[2]>>)

\* an operand that is not strictly positive between two that are
C28_WitnessIgnored ==
    /\ op = "expand"
    /\ Len(rhs) >= 3
    /\ is_positive(rhs[1]) /\ ~is_positive(rhs[2]) /\ is_positive(rhs[3])
    /\ expand(lhs, rhs[1]) # lhs
    /\ out = expand(expand(lhs, rhs[1]), rhs[3])
    /\ out # expand(lhs, rhs[1])

----------------------------------------------------------------------------
\* the fallible operations of a rect
RectTryOps == {"try_convert", "try_ref_convert"} \cup TryOps

\* the fields of a rect in the order point0.x, point0.y, .., point1.x, ..
FieldsOfRect(r) ==
    [i \in 1..(2 * Dim(r.p0)) |->
        IF i <= Dim(r.p0)
        THEN <<"p0", FieldOrder[i]>>
        ELSE <<"p1", FieldOrder[i - Dim(r.p0)]>>]

\* the result of the scalar operation on field f of corner c of lhs
TryOfCorner(c, f) ==
    IF op \in {"try_convert", "try_ref_convert"}
    THEN try_into(lhs[c][f])
    ELSE IF op = "try_neg"
         THEN scalar_try(op, lhs[c][f], lhs[c][f])
         ELSE scalar_try(op, lhs[c][f], Operand(f))

\* the result of the scalar operation on the i-th field of lhs
TryOfField(i) == TryOfCorner(FieldsOfRect(lhs)[i][1], FieldsOfRect(lhs)[i][2])

(* C30: a fallible operation of a rect (try_convert, try_ref_convert,      *)
(* try_neg, try_div and try_mul by a scalar, try_add, try_div, try_mul and *)
(* try_sub by a vector) returns the error of the first field that fails    *)
(* in the order point0.x, point0.y(, point0.z), point1.x, point1.y(,       *)
(* point1.z), and Ok of the rect of the field results only when no field   *)
(* of either corner fails.                                                 *)
C30_RectFirstFailure ==
    op \in RectTryOps =>
        LET n == 2 * Dim(lhs.p0)
            bad == {i \in 1..n : is_err(TryOfField(i))}
        IN  IF bad = {}
            THEN out = Ok(Rect([f \in DOMAIN lhs.p0 |-> TryOfCorner("p0", f)[2]],
                               [f \in DOMAIN lhs.p0 |-> TryOfCorner("p1", f)[2]]))
            ELSE out = TryOfField(CHOOSE i \in bad : \A j \in bad : i <= j)

\* a conversion where point0.y and point1.x fail with different errors: the
\* error of point0.y is returned
C30_Witness ==
    /\ op = "try_convert"
    /\ is_ok(TryOfCorner("p0", "x"))
    /\ is_err(TryOfCorner("p0", "y"))
    /\ is_err(TryOfCorner("p1", "x"))
    /\ TryOfCorner("p0", "y") # TryOfCorner("p1", "x")
    /\ out = TryOfCorner("p0", "y")

\* a checked addition of a vector where point0 succeeds and point1.y fails
C30_WitnessPoint1 ==
    /\ op = "try_add"
    /\ \A f \in DOMAIN lhs.p0 : is_ok(TryOfCorner("p0", f))
    /\ is_ok(TryOfCorner("p1", "x"))
    /\ is_err(TryOfCorner("p1", "y"))
    /\ out = TryOfCorner("p1", "y")

\* a checked multiplication by a scalar that succeeds on every field
C30_WitnessOk ==
    /\ op = "try_mul_scalar"
    /\ is_ok(out)
    /\ out[2] # lhs

====
